---- MODULE Spec2Model ----
(***************************************************************************)
(* A model of the MixedInKey analysis backend:                             *)
(*   - CuePipeline.run           (src/backend/pipeline/pipeline.py)        *)
(*   - HotCueStage.run           (src/backend/pipeline/hotcue_stage.py)    *)
(*   - AudioAnalyzer.analyze_audio and analyze_batch_parallel              *)
(*                               (src/backend/analyzer.py)                 *)
(*   - the batch runner's summary (src/backend/batch_analyzer.py)          *)
(*                                                                         *)
(* Times are integers in tenths of a second (6.0 s = 60), confidences are  *)
(* integers in hundredths (0.75 = 75).  NaN is a value of its own that     *)
(* compares false with everything, None is a value of its own.  The        *)
(* arithmetic is exact: a difference of floats that the code finds a hair  *)
(* below a limit it equals on paper (5.1 - 2.1 < 3.0) is equal here.       *)
(***************************************************************************)
EXTENDS Integers, Sequences, FiniteSets, TLC

VARIABLES
    \* ---- CuePipeline.run ----
    pc,          \* position inside CuePipeline.run
    rawCues,     \* the stages' cues, in stage_cue_sets order
    bpm,         \* s_analyzer["bpm"]; 0 stands for None
    aubioGrid,   \* s_aubio["beatgrid"]
    duration,    \* the file's duration, or None
    beatgrid,    \* the grid run() snaps to and returns
    valid,       \* run()'s list `valid`
    resolved,    \* run()'s list `resolved`
    snapped,     \* run()'s list `snapped`
    final_cues,  \* run()'s result "cues"
    hotcues,     \* run()'s result "hotcues"
    \* ---- HotCueStage.run called on its own ----
    hpc,         \* position of the stand-alone HotCueStage.run call
    hcues,       \* its argument
    hot,         \* its result
    \* ---- AudioAnalyzer.analyze_audio, after the pipeline ----
    apc,         \* position inside analyze_audio
    analyzerCues,\* cue_points of detect_cue_points_rekordbox_algorithm
    cue_points,  \* analysis["cue_points"] of the returned record
    outHotcues,  \* analysis["hotcues"] of the returned record
    \* ---- AudioAnalyzer.analyze_batch_parallel ----
    bpc,         \* position of the batch's own thread
    cpu_count,   \* os.cpu_count()
    todo,        \* files_to_process
    wpc,         \* per file: position of the analyze_audio call submitted for it
    features,    \* self._features: the file whose FeatureBundle it holds (0: None)
    seen,        \* per file: the bundles its analysis has read from self._features
    ret,         \* per file: what analyze_audio returned
    ran,         \* per file: how long its analysis has been running
    results,     \* the batch's list `results`
    \* ---- CacheManager ----
    conn,        \* self.conn: "open", or "none" for None
    cache,       \* the rows of table cache, as the connection sees them
    fs,          \* the files on disk: per path, whether it exists and its mtime
    lastCall,    \* the CacheManager call just made and what it returned
    \* ---- stageVars ----
    spc,         \* where run() is in step 1: "pool", then "done"
    futures,     \* per stage: what run_safely returned, once it has
    stages,      \* s_autocue ... s_structure after collection
    logs,        \* the failure and add entries of logs
    returned,    \* the cue list run() returns
    \* ---- bpmVars ----
    vpc,         \* where detect_bpm_rekordbox_algorithm is
    tempo,       \* features['tempo'], or None
    bpm_results, \* the list of estimates
    final_bpm,   \* what _weighted_bpm_voting returned
    bpmOut,      \* the BPM returned
    \* ---- keyVars ----
    kpc,         \* where detect_key_rekordbox_algorithm is
    key_results, \* the list of (key, mode, confidence) results
    camelot_key, \* the key returned
    final_mode,  \* the mode returned
    \* ---- structVars ----
    tpc,         \* where structure detection is
    detector,    \* "stage" (StructureStage) or "analyzer"
    scene,       \* the track: its duration and beat times
    peaks,       \* the novelty peaks found
    segments,    \* the segments before labelling
    structure,   \* the song_structure returned
    \* ---- cliVars ----
    xpc,         \* position inside main() of analyzer.py
    argv,        \* the command line and what the file decodes to
    analysis,    \* what analyze_quick or analyze_audio returned
    stdout,      \* the records printed, in order
    exitStatus,  \* the process's exit status, None while running
    \* ---- runVars ----
    rpc,         \* position of the batch runner's main thread
    onDisk,      \* the file_paths that exist
    checked,     \* how many file_paths the validation loop has passed
    work,        \* per file: the state of its submitted analyze_audio call
    gathered,    \* the files with an entry in results
    _shutting_down, \* the module's flag
    sigs,        \* the signals delivered, in order
    out,         \* the records written to stdout, in order
    status,      \* the exit status, None while running
    \* ---- scoreVars ----
    mpc,         \* whether build_mix_scorecard has been called
    record,      \* the analysis record given to it
    scorecard,   \* what it returned
    \* ---- guardVars ----
    gstack,      \* the analyze_audio calls on the file, the outermost first
    environ,     \* os.environ's MIXEDIN_PIPELINE_ACTIVE, or "unset"
    cuePipeline, \* whether _CuePipeline is not None
    importable,  \* whether the stage's import of AudioAnalyzer succeeds
    pipelineRuns, \* how often CuePipeline.run was started
    topResult,   \* what the top-level call returned
    \* ---- ladderVars ----
    lpc,         \* whether the two cues have been resolved
    pair,        \* two cues, in the order of the sorted list
    survivors,   \* the list resolved for them
    \* ---- snapVars ----
    npc,         \* whether the cue has gone through the snapping step
    ncue,        \* a cue of the resolved list
    ngrid,       \* the beat grid
    nbpm,        \* s_analyzer["bpm"]; 0 stands for None
    nout,        \* the cue appended to the snapped list
    \* ---- traceVars ----
    qpc,         \* whether the traced run has returned
    qraw,        \* the standardized stage cues of the traced run
    qbpm,        \* its analyzer BPM; 0 stands for None
    qcues,       \* its result "cues"
    qlogs,       \* its result "logs"
    \* ---- gridVars ----
    ypc,         \* position: the beat stage, the join, the grid chosen
    beat_times,  \* features['beat_times']
    aub,         \* what _aubio_detect returns
    fallback,    \* what _librosa_fallback returns
    ybpm,        \* s_analyzer["bpm"]; 0 stands for None
    s_aubio,     \* run()'s s_aubio
    ygrid        \* run()'s beatgrid

pipeVars == <<pc, rawCues, bpm, aubioGrid, duration, beatgrid, valid, resolved,
              snapped, final_cues, hotcues>>
hotVars == <<hpc, hcues, hot>>
analyzeVars == <<apc, analyzerCues, cue_points, outHotcues>>
batchVars == <<bpc, cpu_count, todo, wpc, features, seen, ret, ran, results>>

cacheVars == <<conn, cache, fs, lastCall>>

stageVars == <<spc, futures, stages, logs, returned>>

bpmVars == <<vpc, tempo, bpm_results, final_bpm, bpmOut>>

keyVars == <<kpc, key_results, camelot_key, final_mode>>

structVars == <<tpc, detector, scene, peaks, segments, structure>>

cliVars == <<xpc, argv, analysis, stdout, exitStatus>>

runVars == <<rpc, onDisk, checked, work, gathered, _shutting_down, sigs, out, status>>

scoreVars == <<mpc, record, scorecard>>

guardVars == <<gstack, environ, cuePipeline, importable, pipelineRuns, topResult>>

ladderVars == <<lpc, pair, survivors>>

snapVars == <<npc, ncue, ngrid, nbpm, nout>>

traceVars == <<qpc, qraw, qbpm, qcues, qlogs>>

gridVars == <<ypc, beat_times, aub, fallback, ybpm, s_aubio, ygrid>>

vars == <<pipeVars, hotVars, analyzeVars, batchVars, cacheVars, stageVars, bpmVars, keyVars, structVars, cliVars, runVars, scoreVars, guardVars, ladderVars, snapVars, traceVars, gridVars>>

----------------------------------------------------------------------------
(* Values and small helpers *)

None == -1000000
NaN == -2000000

Abs(x) == IF x < 0 THEN -x ELSE x
Max2(a, b) == IF a >= b THEN a ELSE b
Min2(a, b) == IF a <= b THEN a ELSE b

\* sorted(seq, key=time): Python's sort is stable
RECURSIVE SortByTime(_)
SortByTime(s) ==
    IF Len(s) <= 1 THEN s
    ELSE LET front == SortByTime(SubSeq(s, 1, Len(s) - 1))
             x == s[Len(s)]
             k == Cardinality({i \in 1..Len(front) : front[i].time <= x.time})
         IN  SubSeq(front, 1, k) \o <<x>> \o SubSeq(front, k + 1, Len(front))

----------------------------------------------------------------------------
(* pipeline.py: module-level helpers *)

\* index (1-based) of the first beat nearest to t: min(range(len), key=|b - t|)
NearestIdx(t, grid) ==
    LET dists == {Abs(grid[j] - t) : j \in 1..Len(grid)}
        m == CHOOSE x \in dists : \A y \in dists : x <= y
    IN  CHOOSE i \in 1..Len(grid) :
            Abs(grid[i] - t) = m /\ \A j \in 1..(i - 1) : Abs(grid[j] - t) # m

_nearest_beat(t, grid) ==
    IF grid = <<>> THEN t ELSE grid[NearestIdx(t, grid)]

\* Python's round(idx / 4): halves go to the even neighbour
RoundQuarter(idx) ==
    LET q == idx \div 4
        r == idx % 4
    IN  IF r = 0 \/ r = 1 THEN q
        ELSE IF r = 3 THEN q + 1
        ELSE IF q % 2 = 0 THEN q ELSE q + 1

_nearest_bar(t, grid, bpmv) ==
    IF grid = <<>> \/ bpmv <= 0 THEN t
    ELSE LET idx == NearestIdx(t, grid) - 1
             bar_idx == Max2(0, Min2(RoundQuarter(idx) * 4, Len(grid) - 1))
         IN  grid[bar_idx + 1]

\* PRIORITY_ORDER and _priority_index
PRIORITY_ORDER ==
    <<"drop", "outro", "chorus", "hook", "breakdown", "build", "bridge",
      "pre_chorus", "intro", "vocal", "section">>

_priority_index(t) ==
    IF \E i \in 1..Len(PRIORITY_ORDER) : PRIORITY_ORDER[i] = t
    THEN (CHOOSE i \in 1..Len(PRIORITY_ORDER) : PRIORITY_ORDER[i] = t) - 1
    ELSE Len(PRIORITY_ORDER) + 1

SNAP_TYPES == {"intro", "drop", "chorus", "hook", "bridge", "outro", "breakdown", "build"}
BAR_SNAP_TYPES == {"intro", "outro", "drop", "breakdown"}

_valid_time(t, dur) ==
    /\ t # NaN
    /\ t >= 0
    /\ (dur # None => t <= dur)

\* the loop of _dedup_and_space over the sorted cues
RECURSIVE DedupLoop(_, _, _)
DedupLoop(cues, pruned, min_spacing) ==
    IF cues = <<>> THEN pruned
    ELSE LET c == Head(cues)
             n == Len(pruned)
         IN  IF n > 0 /\ Abs(c.time - pruned[n].time) < min_spacing
             THEN IF c.conf > pruned[n].conf
                  THEN DedupLoop(Tail(cues), [pruned EXCEPT ![n] = c], min_spacing)
                  ELSE DedupLoop(Tail(cues), pruned, min_spacing)
             ELSE DedupLoop(Tail(cues), Append(pruned, c), min_spacing)

\* a slip: a higher-confidence close cue is appended instead of replacing the last
RECURSIVE DedupLoopAppend(_, _, _)
DedupLoopAppend(cues, pruned, min_spacing) ==
    IF cues = <<>> THEN pruned
    ELSE LET c == Head(cues)
             n == Len(pruned)
         IN  IF n > 0 /\ Abs(c.time - pruned[n].time) < min_spacing
                  /\ c.conf <= pruned[n].conf
             THEN DedupLoopAppend(Tail(cues), pruned, min_spacing)
             ELSE DedupLoopAppend(Tail(cues), Append(pruned, c), min_spacing)

DedupAppends(cues, min_spacing) ==
    DedupLoopAppend(SortByTime(cues), <<>>, min_spacing)

_dedup_and_space(cues, min_spacing) ==
    DedupLoop(SortByTime(cues), <<>>, min_spacing)

----------------------------------------------------------------------------
(* CuePipeline.run, step by step *)

\* bar_sec = 60.0 / float(bpm) * 4.0 if bpm and bpm > 0 else 8.0
BarSec(b) == IF b # 0 /\ b > 0 THEN 2400 \div b ELSE 80

\* float(bpm or 120.0)
BpmVal(b) == IF b # 0 THEN b ELSE 120

\* window = max(3.0, min(10.0, 2.0 * (4.0 * 60.0 / max(bpm_val, 60.0))))
Window(b) == Max2(30, Min2(100, 2 * (2400 \div Max2(BpmVal(b), 60))))

\* adaptive_spacing, the same expression written again in step 8
AdaptiveSpacing(b) == Max2(30, Min2(100, 2 * (2400 \div Max2(BpmVal(b), 60))))

\* the uniform grid of the fallback: curr = start_t; while curr < limit: append
UniformGrid(start, step, limit) ==
    IF start >= limit THEN <<>>
    ELSE LET n == ((limit - start - 1) \div step) + 1
         IN  [i \in 1..n |-> start + (i - 1) * step]

\* the beat grid of run(): aubio's, or the fallback generated from the BPM
BeatgridOf(aubio, b, start, limit) ==
    IF aubio # <<>> THEN aubio
    ELSE IF b # 0 /\ b > 0 THEN UniformGrid(start, 600 \div b, limit)
    ELSE <<>>

\* step 4: validity filtering
KeepValid(c, dur) ==
    /\ _valid_time(c.time, dur)
    /\ ~(c.type \in {"breakdown", "bridge"} /\ c.time < 80)

HasType(cues, ty) == \E i \in 1..Len(cues) : cues[i].type = ty

FirstOfType(cues, ty) ==
    cues[CHOOSE i \in 1..Len(cues) :
            cues[i].type = ty /\ \A j \in 1..(i - 1) : cues[j].type # ty]

\* _smart_intro_time: 0.0, or the first loud frame (bar-snapped when possible)
SmartIntroTime(raw, grid, b) ==
    IF raw = None THEN 0
    ELSE Max2(0, IF grid # <<>> /\ b # 0 /\ b > 0 THEN _nearest_bar(raw, grid, b) ELSE raw)

\* _smart_outro_time: duration - 12 s, or the first quiet frame past 60 %
SmartOutroTime(raw, dur, grid, b) ==
    IF raw = None THEN Max2(0, dur - 120)
    ELSE Max2(0, IF grid # <<>> /\ b # 0 /\ b > 0 THEN _nearest_bar(raw, grid, b) ELSE raw)

Synth(ty, t) == [type |-> ty, time |-> t, conf |-> 70]

\* step 5: ordering validity
PushCue(c, intro_time, bar_sec) ==
    IF c.type = "drop" /\ c.time <= intro_time + bar_sec
    THEN [c EXCEPT !.time = intro_time + bar_sec + 1]
    ELSE IF c.type = "outro" /\ c.time <= intro_time + bar_sec
    THEN [c EXCEPT !.time = intro_time + bar_sec + 40]
    ELSE c

PushAll(cues, b) ==
    LET intro_time == IF HasType(cues, "intro") THEN FirstOfType(cues, "intro").time ELSE 0
    IN  [i \in 1..Len(cues) |-> PushCue(cues[i], intro_time, BarSec(b))]

\* step 6: the winner between the last accepted cue and a close cue c
\* TRUE when c replaces last
Replaces(c, last) ==
    IF c.conf > 75 /\ last.conf <= 75 THEN TRUE
    ELSE IF last.conf > 75 /\ c.conf <= 75 THEN FALSE
    ELSE LET p_last == _priority_index(last.type)
             p_c == _priority_index(c.type)
         IN  IF p_c < p_last THEN TRUE
             ELSE IF p_c > p_last THEN FALSE
             ELSE IF c.conf > last.conf THEN TRUE
             ELSE IF c.conf < last.conf THEN FALSE
             ELSE c.time < last.time

\* the drop/outro rule: keep both, 0.5 s apart
Separate(c, last) ==
    IF c.type = "drop"
    THEN [c EXCEPT !.time = Min2(c.time, last.time - 5)]
    ELSE [c EXCEPT !.time = Max2(c.time, last.time + 5)]

RECURSIVE ResolveLoop(_, _, _)
ResolveLoop(cues, res, window) ==
    IF cues = <<>> THEN res
    ELSE LET c == Head(cues)
             n == Len(res)
         IN  IF n = 0 THEN ResolveLoop(Tail(cues), <<c>>, window)
             ELSE IF Abs(c.time - res[n].time) < window
             THEN IF {c.type, res[n].type} = {"drop", "outro"}
                  THEN ResolveLoop(Tail(cues), Append(res, Separate(c, res[n])), window)
                  ELSE IF Replaces(c, res[n])
                  THEN ResolveLoop(Tail(cues), [res EXCEPT ![n] = c], window)
                  ELSE ResolveLoop(Tail(cues), res, window)
             ELSE ResolveLoop(Tail(cues), Append(res, c), window)

ResolveConflicts(cues, b) ==
    SortByTime(ResolveLoop(SortByTime(cues), <<>>, Window(b)))

\* step 7: beat snapping with bar awareness
SnapCue(cue, grid, b) ==
    IF grid = <<>> THEN cue
    ELSE IF cue.type \in BAR_SNAP_TYPES
    THEN LET t_snapped == _nearest_bar(cue.time, grid, BpmVal(b))
         IN  IF Abs(cue.time - t_snapped) < 20
             THEN [cue EXCEPT !.time = t_snapped]
             ELSE [cue EXCEPT !.time = _nearest_beat(cue.time, grid)]
    ELSE IF cue.type \in SNAP_TYPES
    THEN [cue EXCEPT !.time = _nearest_beat(cue.time, grid)]
    ELSE cue

SnapAll(cues, grid, b) == [i \in 1..Len(cues) |-> SnapCue(cues[i], grid, b)]

\* a slip: the final validity filter of step 8 is left out
KeepAll(cues, dur) == cues

\* step 8: final clamp
FinalValid(cues, dur) == SelectSeq(cues, LAMBDA c : _valid_time(c.time, dur))

----------------------------------------------------------------------------
(* hotcue_stage.py: HotCueStage.  A cue object is named by its index in    *)
(* the sorted cue list (Python's id(c)); 0 stands for None.                *)

ALIASES(target) ==
    CASE target = "intro" -> {"intro", "mix_in", "mixin"}
      [] target = "vocal" -> {"vocal", "verse", "vox", "lead_vocal"}
      [] target = "chorus" -> {"chorus", "hook"}
      [] target = "build" -> {"build", "buildup", "build_up", "pre_chorus"}
      [] target = "drop" -> {"drop", "energy_peak", "climax"}
      [] target = "breakdown" -> {"breakdown", "bridge"}
      [] target = "outro" -> {"outro", "mix_out", "mixout"}
      [] OTHER -> {}

ALL_SLOTS == <<"A", "B", "C", "D", "E", "F", "G", "H">>

SlotOrder(slot) == CHOOSE i \in 1..Len(ALL_SLOTS) : ALL_SLOTS[i] = slot

MIN_SPACING == 60

IdxSeq(n) == [i \in 1..n |-> i]

_pick_all(cues, target) ==
    SelectSeq(IdxSeq(Len(cues)), LAMBDA i : cues[i].type \in ALIASES(target))

\* _first_before(items, t): the items before t (the cue list is sorted already)
_first_before(cues, items, t) ==
    SelectSeq(items, LAMBDA i : cues[i].time < t)

\* the first candidate at least min_spacing from every chosen cue, or None
_choose_with_spacing(cues, candidates, chosen, min_spacing) ==
    LET ok(c) == \A k \in 1..Len(chosen) :
                    Abs(cues[c].time - cues[chosen[k]].time) >= min_spacing
    IN  IF \E k \in 1..Len(candidates) : ok(candidates[k])
        THEN candidates[CHOOSE k \in 1..Len(candidates) :
                 ok(candidates[k]) /\ \A j \in 1..(k - 1) : ~ok(candidates[j])]
        ELSE 0

Chosen(h) == [k \in 1..Len(h) |-> h[k].id]

\* pick = self._choose_with_spacing([cand], chosen, min_spacing) or cand
PickOr(cues, cand, h) ==
    LET pick == _choose_with_spacing(cues, <<cand>>, Chosen(h), MIN_SPACING)
    IN  IF pick # 0 THEN pick ELSE cand

\* hot.append({"slot": slot, "cue": pick}) when there is a candidate
Assign(cues, h, slot, cand) ==
    IF cand = 0 THEN h ELSE Append(h, [slot |-> slot, id |-> PickOr(cues, cand, h)])

\* duration = max(times + [0.0]) + 0.01, in thousandths of a second
HotDuration(cues) ==
    LET m == CHOOSE x \in {cues[i].time : i \in 1..Len(cues)} \cup {0} :
                 \A i \in 1..Len(cues) : cues[i].time <= x /\ x >= 0
    IN  100 * m + 10

\* score(d) = conf * 0.7 + pos_bonus * 0.3, times a positive factor that is the
\* same for every drop of one call:  (score - 0.3) * 125000 * duration / 25
ScoreKey(cues, d, dur) ==
    35 * cues[d].conf * (dur \div 10) - 12 * Abs(475 * (dur \div 10) - 10000 * cues[d].time)

\* score(a) > score(b); on equal keys the 1e-6 of the divisor favours the
\* drop with the higher confidence
ScoreAbove(cues, a, b, dur) ==
    \/ ScoreKey(cues, a, dur) > ScoreKey(cues, b, dur)
    \/ ScoreKey(cues, a, dur) = ScoreKey(cues, b, dur) /\ cues[a].conf > cues[b].conf

\* first_drop: the best-scoring drop of the 35 %..60 % window, else of all drops
FirstDrop(cues, drops) ==
    IF drops = <<>> THEN 0
    ELSE LET dur == HotDuration(cues)
             mid == SelectSeq(drops, LAMBDA d :
                        35 * dur <= 10000 * cues[d].time /\ 10000 * cues[d].time <= 60 * dur)
             pool == IF mid # <<>> THEN mid ELSE drops
         IN  pool[CHOOSE k \in 1..Len(pool) :
                    /\ \A j \in 1..Len(pool) : ~ScoreAbove(cues, pool[j], pool[k], dur)
                    /\ \A j \in 1..(k - 1) : ScoreAbove(cues, pool[k], pool[j], dur)]

\* the backfill loop over the free slots
RECURSIVE BackfillLoop(_, _, _, _)
BackfillLoop(cues, slots, remaining, h) ==
    IF slots = <<>> THEN h
    ELSE LET pick == _choose_with_spacing(cues, remaining, Chosen(h), MIN_SPACING)
         IN  IF pick = 0 THEN h
             ELSE LET h2 == Append(h, [slot |-> Head(slots), id |-> pick])
                      rest == SelectSeq(remaining, LAMBDA i : i # pick)
                  IN  IF Len(h2) >= 8 THEN h2
                      ELSE BackfillLoop(cues, Tail(slots), rest, h2)

\* sorted(..., key=(-confidence, time)) of the cues not used yet
RECURSIVE SortByConf(_, _)
SortByConf(cues, ids) ==
    IF Len(ids) <= 1 THEN ids
    ELSE LET front == SortByConf(cues, SubSeq(ids, 1, Len(ids) - 1))
             x == ids[Len(ids)]
             before(i) == \/ cues[i].conf > cues[x].conf
                          \/ cues[i].conf = cues[x].conf /\ cues[i].time <= cues[x].time
             k == Cardinality({j \in 1..Len(front) : before(front[j])})
         IN  SubSeq(front, 1, k) \o <<x>> \o SubSeq(front, k + 1, Len(front))

\* a slip: every slot is offered to the backfill, taken or not
AllSlotsFree(h) == ALL_SLOTS

\* slots = [s for s in ALL_SLOTS if s not in [h["slot"] for h in hot]]
FreeSlots(h) ==
    SelectSeq(ALL_SLOTS, LAMBDA sl : \A k \in 1..Len(h) : h[k].slot # sl)

Backfill(cues, h) ==
    IF Len(h) >= 8 THEN h
    ELSE LET used == {h[k].id : k \in 1..Len(h)}
             remaining == SortByConf(cues, SelectSeq(IdxSeq(Len(cues)), LAMBDA i : i \notin used))
         IN  BackfillLoop(cues, FreeSlots(h), remaining, h)

\* hot.sort(key=slot order): stable
RECURSIVE SortBySlot(_)
SortBySlot(h) ==
    IF Len(h) <= 1 THEN h
    ELSE LET front == SortBySlot(SubSeq(h, 1, Len(h) - 1))
             x == h[Len(h)]
             k == Cardinality({j \in 1..Len(front) : SlotOrder(front[j].slot) <= SlotOrder(x.slot)})
         IN  SubSeq(front, 1, k) \o <<x>> \o SubSeq(front, k + 1, Len(front))

\* the role slots A..H of HotCueStage.run, in the order the code fills them
RoleSlots(cues) ==
    LET n == Len(cues)
        intros == _pick_all(cues, "intro")
        vocals == _pick_all(cues, "vocal")
        choruses == _pick_all(cues, "chorus")
        builds == _pick_all(cues, "build")
        drops == _pick_all(cues, "drop")
        breakdowns == _pick_all(cues, "breakdown")
        outros == _pick_all(cues, "outro")
        phrases == SelectSeq(IdxSeq(n), LAMBDA i : cues[i].type \in {"phrase", "section"})
        first_intro == IF intros # <<>> THEN intros[1]
                       ELSE IF phrases # <<>> THEN phrases[1] ELSE 1
        first_drop == FirstDrop(cues, drops)
        b_voc == IF vocals = <<>> THEN 0
                 ELSE IF first_drop # 0
                 THEN LET before == _first_before(cues, vocals, cues[first_drop].time)
                      IN  IF before # <<>> THEN before[1] ELSE vocals[1]
                 ELSE vocals[1]
        b_cand == IF b_voc = 0 /\ choruses # <<>> THEN choruses[1] ELSE b_voc
        c_cand == IF choruses # <<>> THEN choruses[1]
                  ELSE IF Len(vocals) > 1 THEN vocals[2] ELSE 0
        before_drop == IF first_drop = 0 THEN <<>>
                       ELSE SelectSeq(IdxSeq(n), LAMBDA i : cues[i].time < cues[first_drop].time - 40)
        d_cand == IF builds # <<>> THEN builds[1]
                  ELSE IF before_drop # <<>> THEN before_drop[Len(before_drop)] ELSE 0
        e_cand == IF first_drop # 0 THEN first_drop
                  ELSE IF choruses # <<>> THEN choruses[Len(choruses)] ELSE 0
        f_cand == IF breakdowns # <<>> THEN breakdowns[1] ELSE 0
        g_cand == IF Len(choruses) > 1 THEN choruses[2]
                  ELSE IF Len(drops) > 1 THEN drops[2] ELSE 0
        h_cand == IF outros # <<>> THEN outros[Len(outros)]
                  ELSE IF phrases # <<>> THEN phrases[Len(phrases)] ELSE n
        hA == Assign(cues, <<>>, "A", first_intro)
        hB == Assign(cues, hA, "B", b_cand)
        hC == Assign(cues, hB, "C", c_cand)
        hD == Assign(cues, hC, "D", d_cand)
        hE == Assign(cues, hD, "E", e_cand)
        hF == Assign(cues, hE, "F", f_cand)
        hG == Assign(cues, hF, "G", g_cand)
    IN  Assign(cues, hG, "H", h_cand)

\* HotCueStage.run: the list of {"slot", "cue"}; id is the cue object
HotCueRun(cues0) ==
    LET cues == SortByTime(cues0)
    IN  IF cues = <<>> THEN <<>>
        ELSE LET h == SortBySlot(Backfill(cues, RoleSlots(cues)))
             IN  [k \in 1..Len(h) |-> [slot |-> h[k].slot, id |-> h[k].id, cue |-> cues[h[k].id]]]

----------------------------------------------------------------------------
(* The inputs the model draws from *)

MaxCues == 2        \* cues the stages emit in one run
TrackLen == 200     \* the track's length (20 s)
FallbackLimit == 6000
\* the beats the model keeps of a generated grid: the first 40 s, which is
\* past every time a cue can be moved to
GridHorizon == 400

Cue(ty, t, c) == [type |-> ty, time |-> t, conf |-> c]

\* what a stage may emit: an early and a late intro, a drop and an outro near
\* each other and (for a long bar) near the intro, close cues of other types
\* and confidences on both sides of 0.75, and the three kinds of invalid time
StageCues ==
    { Cue("intro", 0, 60), Cue("intro", 170, 80),
      Cue("drop", 50, 60), Cue("outro", 53, 80),
      Cue("chorus", 20, 60), Cue("chorus", 52, 70),
      Cue("vocal", 53, 80),
      Cue("drop", NaN, 60), Cue("chorus", -10, 60), Cue("outro", 250, 60) }

BPMs == {0, 30, 120, 200}
\* s_aubio.get("beatgrid", []): AubioStage.run returns its beats under the
\* key "beats" and no key "beatgrid", so run() always reads an empty list
AubioGrids == {<<>>}
Onsets == {None, 3}         \* s_aubio["onsets"]: empty, or the first onset
IntroRaws == {None, 10}     \* the first loud frame, if the audio has one
OutroRaws == {None, 150}    \* the first quiet frame past 60 %, if there is one
\* soundfile's and librosa's answers for the duration
Durations == {<<TrackLen, TrackLen>>, <<None, TrackLen>>, <<None, None>>}

----------------------------------------------------------------------------
(* CuePipeline.run as a state machine *)

PipeIdle ==
    /\ pc = "idle" /\ rawCues = <<>> /\ bpm = 0 /\ aubioGrid = <<>>
    /\ duration = None /\ beatgrid = <<>> /\ valid = <<>> /\ resolved = <<>>
    /\ snapped = <<>> /\ final_cues = <<>> /\ hotcues = <<>>

HotIdle == hpc = "idle" /\ hcues = <<>> /\ hot = <<>>

AnalyzeIdle ==
    apc = "idle" /\ analyzerCues = <<>> /\ cue_points = <<>> /\ outHotcues = <<>>

BatchIdle ==
    /\ bpc = "idle" /\ cpu_count = 0 /\ todo = <<>> /\ wpc = <<>> /\ features = 0
    /\ seen = <<>> /\ ret = <<>> /\ ran = <<>> /\ results = <<>>

CacheIdle == conn = "none" /\ cache = <<>> /\ fs = <<>> /\ lastCall = <<>>

StagesIdle ==
    /\ spc = "idle" /\ futures = <<>> /\ stages = <<>> /\ logs = <<>> /\ returned = <<>>

BpmIdle ==
    /\ vpc = "idle" /\ tempo = None /\ bpm_results = <<>> /\ final_bpm = <<>> /\ bpmOut = 0

KeyIdle == kpc = "idle" /\ key_results = <<>> /\ camelot_key = <<>> /\ final_mode = ""

StructIdle ==
    /\ tpc = "idle" /\ detector = "" /\ scene = <<>> /\ peaks = {} /\ segments = <<>>
    /\ structure = <<>>

CliIdle ==
    /\ xpc = "idle" /\ argv = <<>> /\ analysis = <<>> /\ stdout = <<>> /\ exitStatus = None

RunIdle ==
    /\ rpc = "idle" /\ onDisk = {} /\ checked = 0 /\ work = <<>> /\ gathered = {}
    /\ _shutting_down = FALSE /\ sigs = <<>> /\ out = <<>> /\ status = None

ScoreIdle ==
    /\ mpc = "idle" /\ record = <<>> /\ scorecard = <<>>

GuardIdle ==
    /\ gstack = <<>> /\ environ = "" /\ cuePipeline = FALSE /\ importable = FALSE
    /\ pipelineRuns = 0 /\ topResult = ""

LadderIdle ==
    /\ lpc = "idle" /\ pair = <<>> /\ survivors = <<>>

SnapIdle ==
    /\ npc = "idle" /\ ncue = <<>> /\ ngrid = <<>> /\ nbpm = 0 /\ nout = <<>>

TraceIdle ==
    /\ qpc = "idle" /\ qraw = <<>> /\ qbpm = 0 /\ qcues = <<>> /\ qlogs = <<>>

GridIdle ==
    /\ ypc = "idle" /\ beat_times = <<>> /\ aub = <<>> /\ fallback = <<>> /\ ybpm = 0
    /\ s_aubio = <<>> /\ ygrid = <<>>

PipeInit ==
    /\ pc = "stages"
    /\ rawCues = <<>>
    /\ bpm \in BPMs
    /\ aubioGrid \in AubioGrids
    /\ duration = None
    /\ beatgrid = <<>>
    /\ valid = <<>>
    /\ resolved = <<>>
    /\ snapped = <<>>
    /\ final_cues = <<>>
    /\ hotcues = <<>>

\* a stage returns one more cue (stage_cue_sets, in order)
StageEmit(c) ==
    /\ pc = "stages"
    /\ Len(rawCues) < MaxCues
    /\ rawCues' = Append(rawCues, c)
    /\ UNCHANGED <<pc, bpm, aubioGrid, duration, beatgrid, valid, resolved,
                   snapped, final_cues, hotcues>>
    /\ UNCHANGED <<hotVars, analyzeVars, batchVars, cacheVars, stageVars, bpmVars, keyVars, structVars, cliVars, runVars, scoreVars, guardVars, ladderVars, snapVars, traceVars, gridVars>>

\* step 4: the cues with a valid time
FilterValid(raw, dur) == SelectSeq(raw, LAMBDA c : KeepValid(c, dur))

\* step 4, minimal structure defaults, and step 5
ValidOf(raw, dur, grid, b, iraw, oraw) ==
    LET v0 == FilterValid(raw, dur)
        v1 == IF HasType(v0, "intro") THEN v0
              ELSE Append(v0, Synth("intro", SmartIntroTime(iraw, grid, b)))
        v2 == IF HasType(v1, "outro") \/ dur = None THEN v1
              ELSE Append(v1, Synth("outro", SmartOutroTime(oraw, dur, grid, b)))
    IN  PushAll(v2, b)

\* run(), after the stages have been joined.  What the file and the audio
\* answer is drawn here: the duration, the first onset (read only when the
\* fallback grid is generated) and the smart intro and outro frames (read
\* only when the stages gave no intro or outro).
Run ==
    /\ pc = "stages"
    /\ \E d \in Durations :
       \E onset \in (IF aubioGrid = <<>> /\ bpm > 0 THEN Onsets ELSE {None}) :
         LET dur == IF d[1] # None THEN d[1] ELSE d[2]
             limit == Min2(IF d[1] # None THEN d[1] ELSE FallbackLimit, GridHorizon)
             start == IF onset # None THEN onset ELSE 0
             grid == BeatgridOf(aubioGrid, bpm, start, limit)
             v0 == FilterValid(rawCues, dur)
         IN  \E iraw \in (IF HasType(v0, "intro") THEN {None} ELSE IntroRaws) :
             \E oraw \in (IF HasType(v0, "outro") \/ dur = None THEN {None} ELSE OutroRaws) :
               LET v == ValidOf(rawCues, dur, grid, bpm, iraw, oraw)
                   r == ResolveConflicts(v, bpm)
                   sn == SnapAll(r, grid, bpm)
                   fin == _dedup_and_space(FinalValid(sn, dur), AdaptiveSpacing(bpm))
               IN  /\ duration' = dur
                   /\ beatgrid' = grid
                   /\ valid' = v
                   /\ resolved' = r
                   /\ snapped' = sn
                   /\ final_cues' = fin
                   /\ hotcues' = HotCueRun(fin)
    /\ pc' = "done"
    /\ UNCHANGED <<rawCues, bpm, aubioGrid>>
    /\ UNCHANGED <<hotVars, analyzeVars, batchVars, cacheVars, stageVars, bpmVars, keyVars, structVars, cliVars, runVars, scoreVars, guardVars, ladderVars, snapVars, traceVars, gridVars>>

Init == PipeInit /\ HotIdle /\ AnalyzeIdle /\ BatchIdle /\ CacheIdle /\ StagesIdle /\ BpmIdle /\ KeyIdle /\ StructIdle /\ CliIdle /\ RunIdle /\ ScoreIdle /\ GuardIdle /\ LadderIdle /\ SnapIdle /\ TraceIdle /\ GridIdle

Next ==
    \/ \E c \in StageCues : StageEmit(c)
    \/ Run

Spec == Init /\ [][Next]_vars

----------------------------------------------------------------------------
(* Properties of the cue list returned by CuePipeline.run *)

Clamp(lo, hi, x) == Max2(lo, Min2(hi, x))

\* the cues the final pass de-duplicates, in the order it walks them
FinalPassInput == SortByTime(FinalValid(snapped, duration))

IsIn(c, cues) == \E i \in 1..Len(cues) : cues[i] = c

C3_IntroAndOutro ==
    (pc = "done" /\ duration # None) =>
        HasType(final_cues, "intro") /\ HasType(final_cues, "outro")

----------------------------------------------------------------------------
(* HotCueStage.run called on a cue list of its caller's choice *)

MaxHot == 8         \* cues in the list given to HotCueStage.run

\* the cues a list is made of: every role type, a second cue of the types a
\* role takes a second of, close pairs and far pairs, two cues at one time,
\* and a type no role asks for
HotInputs ==
    << Cue("intro", 0, 70), Cue("vocal", 30, 60), Cue("build", 40, 60),
       Cue("chorus", 50, 60), Cue("hook", 50, 70), Cue("drop", 90, 80),
       Cue("breakdown", 95, 60), Cue("vocal", 100, 80), Cue("drop", 130, 60),
       Cue("section", 160, 90), Cue("outro", 230, 70) >>

HotInit == hpc = "cues" /\ hcues = <<>> /\ hot = <<>>

\* the place in HotInputs of the last cue of the list (0 for the empty list)
LastInput ==
    IF hcues = <<>> THEN 0
    ELSE CHOOSE k \in 1..Len(HotInputs) : HotInputs[k] = hcues[Len(hcues)]

\* the caller puts one more cue in the list.  run() sorts its argument by
\* time before anything else, so a list is built in the order of HotInputs.
HotAdd(k) ==
    /\ hpc = "cues"
    /\ Len(hcues) < MaxHot
    /\ k > LastInput
    /\ hcues' = Append(hcues, HotInputs[k])
    /\ UNCHANGED <<hpc, hot>>
    /\ UNCHANGED <<pipeVars, analyzeVars, batchVars, cacheVars, stageVars, bpmVars, keyVars, structVars, cliVars, runVars, scoreVars, guardVars, ladderVars, snapVars, traceVars, gridVars>>

\* HotCueStage.run(hcues)
HotRun ==
    /\ hpc = "cues"
    /\ hot' = HotCueRun(hcues)
    /\ hpc' = "done"
    /\ UNCHANGED hcues
    /\ UNCHANGED <<pipeVars, analyzeVars, batchVars, cacheVars, stageVars, bpmVars, keyVars, structVars, cliVars, runVars, scoreVars, guardVars, ladderVars, snapVars, traceVars, gridVars>>

InitHotCue == PipeIdle /\ HotInit /\ AnalyzeIdle /\ BatchIdle /\ CacheIdle /\ StagesIdle /\ BpmIdle /\ KeyIdle /\ StructIdle /\ CliIdle /\ RunIdle /\ ScoreIdle /\ GuardIdle /\ LadderIdle /\ SnapIdle /\ TraceIdle /\ GridIdle

NextHotCue ==
    \/ \E k \in 1..Len(HotInputs) : HotAdd(k)
    \/ HotRun

SpecHotCue == InitHotCue /\ [][NextHotCue]_vars

\* C5: any two entries of the returned hot-cue list hold cues whose times are
\* at least 6.0 s apart.
C5_HotCuesSpaced ==
    hpc = "done" =>
        \A i, j \in 1..Len(hot) :
            i # j => Abs(hot[i].cue.time - hot[j].cue.time) >= MIN_SPACING

\* C6: the returned hot-cue list has at most 8 entries, every entry's slot is
\* one of A..H, no slot occurs twice, and the entries are in slot order.
C6_SlotsDistinctOrdered ==
    hpc = "done" =>
        /\ Len(hot) <= 8
        /\ \A i \in 1..Len(hot) : \E k \in 1..Len(ALL_SLOTS) : ALL_SLOTS[k] = hot[i].slot
        /\ \A i, j \in 1..Len(hot) : i < j => SlotOrder(hot[i].slot) < SlotOrder(hot[j].slot)

\* roles were assigned, the backfill then filled slots the roles had left
\* free, and the list is full
C6_Witness ==
    /\ hpc = "done"
    /\ LET roles == RoleSlots(SortByTime(hcues))
       IN  /\ Len(roles) >= 2
           /\ Len(hot) > Len(roles)
           /\ \E i \in 1..Len(hot) : \A k \in 1..Len(roles) : roles[k].slot # hot[i].slot
    /\ Len(hot) = 8

----------------------------------------------------------------------------
(* AudioAnalyzer.analyze_audio: the pipeline, the analyzer's own cue detector *)
(* and the merge of the two cue lists into the returned record               *)

\* what detect_cue_points_rekordbox_algorithm may return
AnalyzerCueLists ==
    { <<>>,
      <<Cue("intro", 0, 80)>>,
      <<Cue("drop", 100, 80)>>,
      <<Cue("chorus", 20, 60), Cue("outro", 180, 80)>> }

\* the duplicate filter of the merge: the first cue of each (type, time) stays
RECURSIVE DropSeen(_, _)
DropSeen(merged, final) ==
    IF merged = <<>> THEN final
    ELSE LET c == Head(merged)
         IN  IF \E i \in 1..Len(final) : final[i].type = c.type /\ final[i].time = c.time
             THEN DropSeen(Tail(merged), final)
             ELSE DropSeen(Tail(merged), Append(final, c))

\* merged = pipeline_cues + analyzer_cues, sorted by time, duplicates removed
MergeCues(pipeline_cues, analyzer_cues) ==
    DropSeen(SortByTime(pipeline_cues \o analyzer_cues), <<>>)

\* the analyzer's intro (outro) is dropped when the pipeline has one
WithoutPipelineTypes(cues, pipe) ==
    SelectSeq(cues, LAMBDA c :
        /\ ~(c.type = "intro" /\ HasType(pipe, "intro"))
        /\ ~(c.type = "outro" /\ HasType(pipe, "outro")))

AnalyzeInit ==
    apc = "pipeline" /\ analyzerCues = <<>> /\ cue_points = <<>> /\ outHotcues = <<>>

\* pipeline.run raised, or the pipeline is not there: the empty pipeline_result
PipelineFailed ==
    /\ apc = "pipeline"
    /\ pc = "stages"
    /\ pc' = "done"
    /\ UNCHANGED <<rawCues, bpm, aubioGrid, duration, beatgrid, valid, resolved,
                   snapped, final_cues, hotcues>>
    /\ UNCHANGED <<hotVars, analyzeVars, batchVars, cacheVars, stageVars, bpmVars, keyVars, structVars, cliVars, runVars, scoreVars, guardVars, ladderVars, snapVars, traceVars, gridVars>>

\* the analyzer's own cue detection, after the pipeline has returned
DetectCuePoints ==
    /\ apc = "pipeline"
    /\ pc = "done"
    /\ \E cs \in AnalyzerCueLists :
          analyzerCues' = WithoutPipelineTypes(cs, final_cues)
    /\ apc' = "compile"
    /\ UNCHANGED <<cue_points, outHotcues>>
    /\ UNCHANGED <<pipeVars, hotVars, batchVars, cacheVars, stageVars, bpmVars, keyVars, structVars, cliVars, runVars, scoreVars, guardVars, ladderVars, snapVars, traceVars, gridVars>>

\* the record is compiled: the two cue lists are merged and published, the
\* hot cues are those of pipeline_result
CompileResult ==
    /\ apc = "compile"
    /\ cue_points' = MergeCues(final_cues, analyzerCues)
    /\ outHotcues' = hotcues
    /\ apc' = "done"
    /\ UNCHANGED analyzerCues
    /\ UNCHANGED <<pipeVars, hotVars, batchVars, cacheVars, stageVars, bpmVars, keyVars, structVars, cliVars, runVars, scoreVars, guardVars, ladderVars, snapVars, traceVars, gridVars>>

InitAnalyze == PipeInit /\ HotIdle /\ AnalyzeInit /\ BatchIdle /\ CacheIdle /\ StagesIdle /\ BpmIdle /\ KeyIdle /\ StructIdle /\ CliIdle /\ RunIdle /\ ScoreIdle /\ GuardIdle /\ LadderIdle /\ SnapIdle /\ TraceIdle /\ GridIdle

NextAnalyze ==
    \/ \E c \in StageCues : StageEmit(c)
    \/ Run
    \/ PipelineFailed
    \/ DetectCuePoints
    \/ CompileResult

SpecAnalyze == InitAnalyze /\ [][NextAnalyze]_vars

\* C7: in the returned record the hot cues were computed from exactly the cues
\* published as cue_points: the list HotCueStage.run was given (the pipeline's
\* final cue list) has the same (type, time) entries as cue_points.
C7_HotCuesSeeFinalList ==
    apc = "done" =>
        /\ Len(cue_points) = Len(final_cues)
        /\ \A i \in 1..Len(cue_points) :
              /\ cue_points[i].type = final_cues[i].type
              /\ cue_points[i].time = final_cues[i].time

----------------------------------------------------------------------------
(* AudioAnalyzer.analyze_batch_parallel: one AudioAnalyzer, one worker        *)
(* thread per running analyze_audio call, and the batch's own thread that     *)
(* collects the finished futures.  Time is counted in units of 100 s.         *)

NFiles == 2         \* files given to the batch
MaxRan == 4         \* an analysis runs for at most 400 s
TIMEOUT == 3        \* future.result(timeout=300)

Files == 1..NFiles

\* the files of a set, in the order of file_paths
RECURSIVE InOrder(_, _)
InOrder(S, f) ==
    IF f > NFiles THEN <<>>
    ELSE (IF f \in S THEN <<f>> ELSE <<>>) \o InOrder(S, f + 1)

Entry(f, a, e) == [file |-> f, analysis |-> a, error |-> e]

\* the adaptive worker count
MaxWorkers ==
    LET num_remaining == Len(todo)
    IN  IF num_remaining > 20 THEN Min2(2, cpu_count)
        ELSE IF num_remaining > 5 THEN Min2(4, cpu_count)
        ELSE Min2(Min2(num_remaining, cpu_count), 4)

Running(f) == wpc[f] \in {"load", "features", "pipeline", "detect"}

Collected(f) == \E i \in 1..Len(results) : results[i].file = f

BatchInit ==
    /\ bpc = "start"
    /\ cpu_count \in {1, 2}
    /\ todo = <<>>
    /\ wpc = [f \in Files |-> "none"]
    /\ features = 0
    /\ seen = [f \in Files |-> {}]
    /\ ret = [f \in Files |-> "pending"]
    /\ ran = [f \in Files |-> 0]
    /\ results = <<>>

\* the cache is asked first; the files it does not hold are submitted
CheckCache ==
    /\ bpc = "start"
    /\ \E cached \in SUBSET Files :
          LET hits == InOrder(cached, 1)
              rest == InOrder(Files \ cached, 1)
          IN  /\ results' = [i \in 1..Len(hits) |-> Entry(hits[i], "complete", "none")]
              /\ todo' = rest
              /\ wpc' = [f \in Files |-> IF f \in cached THEN "none" ELSE "queued"]
              /\ bpc' = IF rest = <<>> THEN "returned" ELSE "collect"
    /\ UNCHANGED <<cpu_count, features, seen, ret, ran>>
    /\ UNCHANGED <<pipeVars, hotVars, analyzeVars, cacheVars, stageVars, bpmVars, keyVars, structVars, cliVars, runVars, scoreVars, guardVars, ladderVars, snapVars, traceVars, gridVars>>

\* a free worker thread takes the oldest queued call
WorkerStart(f) ==
    /\ bpc = "collect"
    /\ wpc[f] = "queued"
    /\ \A g \in Files : g < f => wpc[g] # "queued"
    /\ Cardinality({g \in Files : Running(g)}) < MaxWorkers
    /\ wpc' = [wpc EXCEPT ![f] = "load"]
    /\ UNCHANGED <<bpc, cpu_count, todo, features, seen, ret, ran, results>>
    /\ UNCHANGED <<pipeVars, hotVars, analyzeVars, cacheVars, stageVars, bpmVars, keyVars, structVars, cliVars, runVars, scoreVars, guardVars, ladderVars, snapVars, traceVars, gridVars>>

\* y, sr, duration = self.load_audio(file_path); an exception ends the call
\* in the handler, which returns None
LoadAudio(f) ==
    /\ wpc[f] = "load"
    /\ \E ok \in BOOLEAN :
          IF ok
          THEN wpc' = [wpc EXCEPT ![f] = "features"] /\ ret' = ret
          ELSE wpc' = [wpc EXCEPT ![f] = "done"] /\ ret' = [ret EXCEPT ![f] = "null"]
    /\ UNCHANGED <<bpc, cpu_count, todo, features, seen, ran, results>>
    /\ UNCHANGED <<pipeVars, hotVars, analyzeVars, cacheVars, stageVars, bpmVars, keyVars, structVars, cliVars, runVars, scoreVars, guardVars, ladderVars, snapVars, traceVars, gridVars>>

\* self._features = self._precompute_features(y, sr)
Precompute(f) ==
    /\ wpc[f] = "features"
    /\ features' = f
    /\ wpc' = [wpc EXCEPT ![f] = "pipeline"]
    /\ UNCHANGED <<bpc, cpu_count, todo, seen, ret, ran, results>>
    /\ UNCHANGED <<pipeVars, hotVars, analyzeVars, cacheVars, stageVars, bpmVars, keyVars, structVars, cliVars, runVars, scoreVars, guardVars, ladderVars, snapVars, traceVars, gridVars>>

\* pipeline.run(file_path, y=y, sr=sr, features=self._features)
RunPipeline(f) ==
    /\ wpc[f] = "pipeline"
    /\ seen' = [seen EXCEPT ![f] = @ \cup {features}]
    /\ wpc' = [wpc EXCEPT ![f] = "detect"]
    /\ UNCHANGED <<bpc, cpu_count, todo, features, ret, ran, results>>
    /\ UNCHANGED <<pipeVars, hotVars, analyzeVars, cacheVars, stageVars, bpmVars, keyVars, structVars, cliVars, runVars, scoreVars, guardVars, ladderVars, snapVars, traceVars, gridVars>>

\* the key, BPM and energy detectors are handed self._features; the record is
\* compiled and returned, or an exception ends the call in the handler
Detect(f) ==
    /\ wpc[f] = "detect"
    /\ seen' = [seen EXCEPT ![f] = @ \cup {features}]
    /\ \E ok \in BOOLEAN :
          ret' = [ret EXCEPT ![f] = IF ok THEN "complete" ELSE "null"]
    /\ wpc' = [wpc EXCEPT ![f] = "done"]
    /\ UNCHANGED <<bpc, cpu_count, todo, features, ran, results>>
    /\ UNCHANGED <<pipeVars, hotVars, analyzeVars, cacheVars, stageVars, bpmVars, keyVars, structVars, cliVars, runVars, scoreVars, guardVars, ladderVars, snapVars, traceVars, gridVars>>

\* 100 s pass for every analysis that is running
Tick ==
    /\ bpc = "collect"
    /\ \E f \in Files : Running(f)
    /\ \A f \in Files : Running(f) => ran[f] < MaxRan
    /\ ran' = [f \in Files |-> IF Running(f) THEN ran[f] + 1 ELSE ran[f]]
    /\ UNCHANGED <<bpc, cpu_count, todo, wpc, features, seen, ret, results>>
    /\ UNCHANGED <<pipeVars, hotVars, analyzeVars, cacheVars, stageVars, bpmVars, keyVars, structVars, cliVars, runVars, scoreVars, guardVars, ladderVars, snapVars, traceVars, gridVars>>

\* as_completed hands over a future that is done; future.result(timeout=300)
\* returns what analyze_audio returned.  The future is done, so result() never
\* waits, and analyze_audio catches every Exception: neither except branch of
\* the loop is entered.
Collect(f) ==
    /\ bpc = "collect"
    /\ wpc[f] = "done"
    /\ ~Collected(f)
    /\ results' = Append(results, Entry(f, ret[f], "none"))
    /\ UNCHANGED <<bpc, cpu_count, todo, wpc, features, seen, ret, ran>>
    /\ UNCHANGED <<pipeVars, hotVars, analyzeVars, cacheVars, stageVars, bpmVars, keyVars, structVars, cliVars, runVars, scoreVars, guardVars, ladderVars, snapVars, traceVars, gridVars>>

\* as_completed is exhausted and the executor is left: return results
Return ==
    /\ bpc = "collect"
    /\ \A i \in 1..Len(todo) : Collected(todo[i])
    /\ bpc' = "returned"
    /\ UNCHANGED <<cpu_count, todo, wpc, features, seen, ret, ran, results>>
    /\ UNCHANGED <<pipeVars, hotVars, analyzeVars, cacheVars, stageVars, bpmVars, keyVars, structVars, cliVars, runVars, scoreVars, guardVars, ladderVars, snapVars, traceVars, gridVars>>

InitBatch == PipeIdle /\ HotIdle /\ AnalyzeIdle /\ BatchInit /\ CacheIdle /\ StagesIdle /\ BpmIdle /\ KeyIdle /\ StructIdle /\ CliIdle /\ RunIdle /\ ScoreIdle /\ GuardIdle /\ LadderIdle /\ SnapIdle /\ TraceIdle /\ GridIdle

NextBatch ==
    \/ CheckCache
    \/ \E f \in Files : WorkerStart(f)
    \/ \E f \in Files : LoadAudio(f)
    \/ \E f \in Files : Precompute(f)
    \/ \E f \in Files : RunPipeline(f)
    \/ \E f \in Files : Detect(f)
    \/ Tick
    \/ \E f \in Files : Collect(f)
    \/ Return

SpecBatch == InitBatch /\ [][NextBatch]_vars

\* the batch runner's summary counts
Successful == Cardinality({i \in 1..Len(results) : results[i].analysis # "null"})
Failed == Cardinality({i \in 1..Len(results) : results[i].error # "none"})

\* C8: the analysis of a file reads from self._features only the bundle that
\* was computed from that file.
C8_OwnBundleOnly ==
    \A f \in DOMAIN seen : seen[f] \subseteq {f}

\* C9: every result entry holds a complete analysis or an error, and in the
\* summary of the returned batch successful + failed = total.
C9_ResultOrError ==
    /\ \A i \in 1..Len(results) :
          results[i].analysis = "complete" \/ results[i].error # "none"
    /\ (bpc = "returned" => Successful + Failed = Len(results))

\* C10: the result entry of a file whose analysis ran for more than 300 s has
\* a null analysis and the timeout error (looked at for an analysis that does
\* return its record in the end).
C10_TimeoutEntry ==
    \A i \in 1..Len(results) :
        (ran[results[i].file] > TIMEOUT /\ ret[results[i].file] = "complete") =>
            results[i].analysis = "null" /\ results[i].error = "timeout"

\* ======================================================================
\* CacheManager (analyzer.py): the SQLite cache of analysis results.
\* Modification times are in units of half a millisecond.  Waveform
\* samples are in units of 1e-9.  `cache` is the table as statements on
\* self.conn see it: a row written by INSERT OR REPLACE is visible to a
\* later SELECT on the same connection whether or not commit() has run.
\* ======================================================================
MaxMtime == 2

TOLERANCE == 2

CachePaths == {"/m/a.mp3", "/m/b.mp3"}

\* The paths callers pass; the working directory is /m.
CallPaths == {"/m/a.mp3", "a.mp3", "/m/b.mp3"}

AbsPath(q) == IF q = "a.mp3" THEN "/m/a.mp3" ELSE q

Mtimes == 0 .. MaxMtime

\* A sample as struct.pack('f') stores it: 0.1 is not a float32 and
\* comes back as 0.100000001 (to 1e-9); 0.0 and 0.5 are stored exactly.
F32(x) == IF x = 100000000 THEN 100000001 ELSE x

Pack(w) == [i \in 1 .. Len(w) |-> F32(w[i])]

Unpack(b) == b

\* json.dumps raises TypeError on a value it cannot serialise; body 0
\* stands for an analysis dict holding such a value.
Serialisable(r) == r.body # 0

JsonDumps(body) == <<"json", body>>

JsonLoads(text) == text[2]

NoBlob == <<>>

Rec(b, h, w) == [body |-> b, hasWave |-> h, wave |-> w]

Records ==
    { Rec(1, FALSE, <<>>),                       \* no waveform_data key
      Rec(2, TRUE, <<>>),                        \* waveform_data: []
      Rec(1, TRUE, <<100000000, 500000000>>),    \* waveform_data: [0.1, 0.5]
      Rec(0, FALSE, <<>>) }                      \* not JSON-serialisable

NoneResult == Rec(None, FALSE, <<>>)

NoRow == [present |-> FALSE, mtime |-> 0, analysis |-> <<>>, waveform |-> NoBlob,
          given |-> NoneResult, fresh |-> FALSE]

\* The row INSERT OR REPLACE writes for record r of a file with mtime m.
\* `given` and `fresh` are bookkeeping of the model: the record handed
\* to set, and whether the file is untouched since the row was written.
Row(r, m) ==
    [present |-> TRUE, mtime |-> m, analysis |-> JsonDumps(r.body),
     waveform |-> IF r.hasWave /\ Len(r.wave) > 0 THEN Pack(r.wave) ELSE NoBlob,
     given |-> r, fresh |-> TRUE]

\* What get builds from a row: json.loads of the text, plus the
\* unpacked blob when there is one.
Decode(row) ==
    IF row.waveform # NoBlob
    THEN Rec(JsonLoads(row.analysis), TRUE, Unpack(row.waveform))
    ELSE Rec(JsonLoads(row.analysis), FALSE, <<>>)

MtimeWithin(stored, current) == Abs(stored - current) <= TOLERANCE

MtimeMatches(stored, current) == Abs(stored - current) < TOLERANCE

\* CacheManager.get, without the exception path.
Get(q) ==
    LET p == AbsPath(q)
    IN  IF conn # "open" THEN NoneResult
        ELSE IF ~fs[p].exists THEN NoneResult
        ELSE IF ~cache[p].present THEN NoneResult
        ELSE IF MtimeMatches(cache[p].mtime, fs[p].mtime) THEN Decode(cache[p])
        ELSE NoneResult

CacheOps == {"get", "set", "set_many", "remove", "clear", "get_stats"}

\* The methods whose body sits in try/except Exception; __init__ is
\* not one of them.
Guarded(op) == op \in CacheOps

Call(op, q, res, fault, n, items) ==
    [op |-> op, path |-> q, result |-> res, fault |-> fault,
     raised |-> fault /\ ~Guarded(op), count |-> n, items |-> items]

NoCall == Call("none", "", NoneResult, FALSE, 0, <<>>)

Stored == {p \in CachePaths : cache[p].present}

CacheInit ==
    /\ conn = "unbuilt"
    /\ cache = [p \in CachePaths |-> NoRow]
    /\ fs \in [CachePaths -> [exists : BOOLEAN, mtime : {0}]]
    /\ lastCall = NoCall

OthersIdle == UNCHANGED <<pipeVars, hotVars, analyzeVars, batchVars, stageVars, bpmVars, keyVars, structVars, cliVars, runVars, scoreVars, guardVars, ladderVars, snapVars, traceVars, gridVars>>

CacheFileArgs == {"None", "str", "Path"}

\* CacheManager(cache_file): cache_file.endswith runs outside any try,
\* so an argument without that method raises AttributeError; _init_db
\* leaves conn None when the store cannot be opened.
CacheNew(arg, opens) ==
    /\ conn = "unbuilt"
    /\ conn' = IF arg = "Path" THEN "unbuilt" ELSE IF opens THEN "open" ELSE "none"
    /\ lastCall' = Call("__init__", arg, NoneResult, arg = "Path", 0, <<>>)
    /\ UNCHANGED <<cache, fs>>
    /\ OthersIdle

CacheGet(q, dbfail) ==
    LET fault == dbfail /\ conn = "open" /\ fs[AbsPath(q)].exists
    IN  /\ conn # "unbuilt"
        /\ lastCall' = Call("get", q, IF fault THEN NoneResult ELSE Get(q), fault, 0, <<>>)
        /\ UNCHANGED <<conn, cache, fs>>
        /\ OthersIdle

CacheSet(q, r) ==
    LET p       == AbsPath(q)
        reaches == conn = "open" /\ fs[p].exists
        fault   == reaches /\ ~Serialisable(r)
    IN  /\ conn # "unbuilt"
        /\ cache' = IF reaches /\ ~fault
                    THEN [cache EXCEPT ![p] = Row(r, fs[p].mtime)]
                    ELSE cache
        /\ lastCall' = Call("set", q, NoneResult, fault, 0, <<>>)
        /\ UNCHANGED <<conn, fs>>
        /\ OthersIdle

\* The rows the loop of set_many has written when it stops: item k is
\* skipped when its file is missing, and the loop ends at the first item
\* that raises.  Nothing is rolled back.
RECURSIVE InsertItems(_, _, _)
InsertItems(items, k, tbl) ==
    IF k > Len(items) THEN tbl
    ELSE IF ~fs[AbsPath(items[k][1])].exists THEN InsertItems(items, k + 1, tbl)
    ELSE IF ~Serialisable(items[k][2]) THEN tbl
    ELSE InsertItems(items, k + 1,
                     [tbl EXCEPT ![AbsPath(items[k][1])] =
                                     Row(items[k][2], fs[AbsPath(items[k][1])].mtime)])

Raises(items, k) == fs[AbsPath(items[k][1])].exists /\ ~Serialisable(items[k][2])

ItemRaises(items) == \E k \in 1 .. Len(items) : Raises(items, k)

ItemLists ==
    { << <<"a.mp3", Rec(1, FALSE, <<>>)>>, <<"/m/b.mp3", Rec(2, TRUE, <<>>)>> >>,
      << <<"/m/a.mp3", Rec(2, TRUE, <<>>)>>, <<"/m/b.mp3", Rec(0, FALSE, <<>>)>> >>,
      << <<"/m/b.mp3", Rec(0, FALSE, <<>>)>>, <<"/m/a.mp3", Rec(1, FALSE, <<>>)>> >>,
      << <<"/m/b.mp3", Rec(1, TRUE, <<100000000, 500000000>>)>> >> }

CacheSetMany(items) ==
    LET fault == conn = "open" /\ ItemRaises(items)
    IN  /\ conn # "unbuilt"
        /\ cache' = IF conn = "open" THEN InsertItems(items, 1, cache) ELSE cache
        /\ lastCall' = Call("set_many", "", NoneResult, fault, 0, items)
        /\ UNCHANGED <<conn, fs>>
        /\ OthersIdle

CacheRemove(q, dbfail) ==
    /\ conn # "unbuilt"
    /\ cache' = IF conn = "open" /\ ~dbfail THEN [cache EXCEPT ![AbsPath(q)] = NoRow]
                ELSE cache
    /\ lastCall' = Call("remove", q, NoneResult, dbfail /\ conn = "open", 0, <<>>)
    /\ UNCHANGED <<conn, fs>>
    /\ OthersIdle

CacheClear(dbfail) ==
    /\ conn # "unbuilt"
    /\ cache' = IF conn = "open" /\ ~dbfail THEN [p \in CachePaths |-> NoRow] ELSE cache
    /\ lastCall' = Call("clear", "", NoneResult, dbfail /\ conn = "open", 0, <<>>)
    /\ UNCHANGED <<conn, fs>>
    /\ OthersIdle

CacheStats(dbfail) ==
    /\ conn # "unbuilt"
    /\ lastCall' = Call("get_stats", "", NoneResult, dbfail /\ conn = "open",
                        IF conn = "open" /\ ~dbfail THEN Cardinality(Stored) ELSE 0,
                        <<>>)
    /\ UNCHANGED <<conn, cache, fs>>
    /\ OthersIdle

FileCall == Call("file", "", NoneResult, FALSE, 0, <<>>)

\* The file at p is rewritten; its new mtime is whatever the clock and
\* the writing tool give it.
FileModify(p, m) ==
    /\ fs[p].exists
    /\ fs' = [fs EXCEPT ![p].mtime = m]
    /\ cache' = [cache EXCEPT ![p].fresh = FALSE]
    /\ lastCall' = FileCall
    /\ UNCHANGED conn
    /\ OthersIdle

FileDelete(p) ==
    /\ fs[p].exists
    /\ fs' = [fs EXCEPT ![p] = [exists |-> FALSE, mtime |-> 0]]
    /\ cache' = [cache EXCEPT ![p].fresh = FALSE]
    /\ lastCall' = FileCall
    /\ UNCHANGED conn
    /\ OthersIdle

FileCreate(p, m) ==
    /\ ~fs[p].exists
    /\ fs' = [fs EXCEPT ![p] = [exists |-> TRUE, mtime |-> m]]
    /\ lastCall' = FileCall
    /\ UNCHANGED <<conn, cache>>
    /\ OthersIdle

InitCache == PipeIdle /\ HotIdle /\ AnalyzeIdle /\ BatchIdle /\ CacheInit /\ StagesIdle /\ BpmIdle /\ KeyIdle /\ StructIdle /\ CliIdle /\ RunIdle /\ ScoreIdle /\ GuardIdle /\ LadderIdle /\ SnapIdle /\ TraceIdle /\ GridIdle

NextCache ==
    \/ \E arg \in CacheFileArgs, opens \in BOOLEAN : CacheNew(arg, opens)
    \/ \E q \in CallPaths, dbfail \in BOOLEAN : CacheGet(q, dbfail)
    \/ \E q \in CallPaths, r \in Records : CacheSet(q, r)
    \/ \E items \in ItemLists : CacheSetMany(items)
    \/ \E q \in CallPaths, dbfail \in BOOLEAN : CacheRemove(q, dbfail)
    \/ \E dbfail \in BOOLEAN : CacheClear(dbfail)
    \/ \E dbfail \in BOOLEAN : CacheStats(dbfail)
    \/ \E p \in CachePaths, m \in Mtimes : FileModify(p, m)
    \/ \E p \in CachePaths : FileDelete(p)
    \/ \E p \in CachePaths, m \in Mtimes : FileCreate(p, m)

SpecCache == InitCache /\ [][NextCache]_vars

\* The row get(q) looked at, and the file it is about.
GotRow == cache[AbsPath(lastCall.path)]

GotFile == fs[AbsPath(lastCall.path)]

Returned == lastCall.op = "get" /\ lastCall.result # NoneResult

NextSetGet ==
    \/ \E arg \in CacheFileArgs, opens \in BOOLEAN : CacheNew(arg, opens)
    \/ \E q \in CallPaths, r \in Records : CacheSet(q, r)
    \/ \E q \in CallPaths, dbfail \in BOOLEAN : CacheGet(q, dbfail)

SpecSetGet == InitCache /\ [][NextSetGet]_vars

\* Equal keys and values, the waveform samples up to float32 precision.
SameRecord(r, g) ==
    /\ g.body = r.body
    /\ g.hasWave = r.hasWave
    /\ g.wave = [i \in 1 .. Len(r.wave) |-> F32(r.wave[i])]

\* C12 (as stated): get after set(p, r) returns a record with the keys
\* and values of r, also when r's waveform_data is an empty list.
C12_RoundTrip ==
    (lastCall.op = "get" /\ ~lastCall.fault /\ conn = "open"
        /\ GotFile.exists /\ GotRow.present) =>
        SameRecord(GotRow.given, lastCall.result)

\* C13 (as stated): after a set_many in which an item raised, get
\* returns nothing for the items the loop handled before it.
C13_FailedBatchLeavesNothing ==
    (lastCall.op = "set_many" /\ lastCall.fault) =>
        \A k \in 1 .. Len(lastCall.items) :
            (\A j \in 1 .. k : ~Raises(lastCall.items, j)) =>
                Get(lastCall.items[k][1]) = NoneResult

StageNames ==
    <<"autocue", "aubio", "pyaudio", "analyzer", "chorus_hook", "bridge", "structure">>

StageSet == {StageNames[i] : i \in 1 .. Len(StageNames)}

\* The stages whose cues go into raw_cues, in the order of stage_cue_sets.
CueStages == <<"autocue", "pyaudio", "analyzer", "chorus_hook", "bridge">>

StageDict(cs, b, grid, segs) ==
    [kind |-> "dict", cues |-> cs, bpm |-> b, beatgrid |-> grid, song_structure |-> segs]

\* run_safely returns a string for a stage that raised.
StageFailed == [StageDict(<<>>, 0, <<>>, <<>>) EXCEPT !.kind = "failed"]

Pending == [StageDict(<<>>, 0, <<>>, <<>>) EXCEPT !.kind = "pending"]

\* The default a failing analyzer stage would leave if it carried a tempo.
StageDefaultWithBpm(s) ==
    IF s = "analyzer" THEN StageDict(<<>>, 120, <<>>, <<>>) ELSE StageDict(<<>>, 0, <<>>, <<>>)

\* s_autocue ... s_structure as initialised before the pool starts.
StageDefault(s) == StageDict(<<>>, 0, <<>>, <<>>)

\* What a stage returns when it does not raise.
StageReturns(s) ==
    CASE s = "autocue"     -> {StageDict(<<>>, 0, <<>>, <<>>),
                               StageDict(<<Cue("intro", 0, 60)>>, 0, <<>>, <<>>)}
      [] s = "aubio"       -> {StageDict(<<>>, 0, <<>>, <<>>)}
      [] s = "pyaudio"     -> {StageDict(<<Cue("drop", 50, 60)>>, 0, <<>>, <<>>)}
      [] s = "analyzer"    -> {StageDict(<<Cue("chorus", 52, 70)>>, 0, <<>>, <<>>),
                               StageDict(<<Cue("chorus", 52, 70)>>, 120, <<>>, <<>>)}
      [] s = "chorus_hook" -> {StageDict(<<Cue("chorus", 20, 60)>>, 0, <<>>, <<>>)}
      [] s = "bridge"      -> {StageDict(<<Cue("bridge", 121, 80)>>, 0, <<>>, <<>>)}
      [] OTHER             -> {StageDict(<<>>, 0, <<>>, <<"verse">>)}

StagesInit ==
    /\ spc = "pool"
    /\ futures = [s \in StageSet |-> Pending]
    /\ stages = [s \in StageSet |-> StageDefault(s)]
    /\ logs = <<>>
    /\ returned = <<>>

NotStages == UNCHANGED <<pipeVars, hotVars, analyzeVars, batchVars, cacheVars, bpmVars, keyVars, structVars, cliVars, runVars, scoreVars, guardVars, ladderVars, snapVars, traceVars, gridVars>>

\* run_safely(stage): the stage returns its dict, or raises and the
\* wrapper returns "<stage>_failed: ...".
StageDone(s, r) ==
    /\ spc = "pool"
    /\ futures[s].kind = "pending"
    /\ futures' = [futures EXCEPT ![s] = r]
    /\ UNCHANGED <<spc, stages, logs, returned>>
    /\ NotStages

\* Collecting the results, in the order of the future.result() calls.
RECURSIVE FailureLogs(_, _)
FailureLogs(fut, k) ==
    IF k > Len(StageNames) THEN <<>>
    ELSE (IF fut[StageNames[k]].kind = "failed"
          THEN <<[what |-> "failed", stage |-> StageNames[k], cue |-> Cue("", 0, 0)]>>
          ELSE <<>>) \o FailureLogs(fut, k + 1)

Joined(fut) ==
    [s \in StageSet |-> IF fut[s].kind = "failed" THEN StageDefault(s) ELSE fut[s]]

\* raw_cues and its log lines, built from stage_cue_sets.
RECURSIVE RawCues(_, _)
RawCues(st, k) ==
    IF k > Len(CueStages) THEN <<>>
    ELSE st[CueStages[k]].cues \o RawCues(st, k + 1)

RECURSIVE AddLogs(_, _)
AddLogs(st, k) ==
    IF k > Len(CueStages) THEN <<>>
    ELSE [i \in 1 .. Len(st[CueStages[k]].cues) |->
             [what |-> "add", stage |-> CueStages[k], cue |-> st[CueStages[k]].cues[i]]]
         \o AddLogs(st, k + 1)

\* Steps 2 to 8 of run() for a file whose duration soundfile reads and
\* whose audio gives no onset and no smart intro or outro frame.
CuesOf(st) ==
    LET b    == st["analyzer"].bpm
        grid == BeatgridOf(st["aubio"].beatgrid, b, 0, Min2(TrackLen, GridHorizon))
        v    == ValidOf(RawCues(st, 1), TrackLen, grid, b, None, None)
        r    == ResolveConflicts(v, b)
        sn   == SnapAll(r, grid, b)
    IN  _dedup_and_space(FinalValid(sn, TrackLen), AdaptiveSpacing(b))

Join ==
    /\ spc = "pool"
    /\ \A s \in StageSet : futures[s].kind # "pending"
    /\ stages' = Joined(futures)
    /\ logs' = FailureLogs(futures, 1) \o AddLogs(Joined(futures), 1)
    /\ returned' = CuesOf(Joined(futures))
    /\ spc' = "done"
    /\ UNCHANGED futures
    /\ NotStages

InitStages == PipeIdle /\ HotIdle /\ AnalyzeIdle /\ BatchIdle /\ CacheIdle /\ StagesInit /\ BpmIdle /\ KeyIdle /\ StructIdle /\ CliIdle /\ RunIdle /\ ScoreIdle /\ GuardIdle /\ LadderIdle /\ SnapIdle /\ TraceIdle /\ GridIdle

NextStages ==
    \/ \E s \in StageSet : \E r \in StageReturns(s) \cup {StageFailed} : StageDone(s, r)
    \/ Join

SpecStages == InitStages /\ [][NextStages]_vars

FailedStages == {s \in StageSet : futures[s].kind = "failed"}

EmptyLists == StageDict(<<>>, 0, <<>>, <<>>)

AsIfEmpty == [s \in StageSet |-> IF s \in FailedStages THEN EmptyLists ELSE futures[s]]

LogCount(what, s) ==
    Cardinality({i \in 1 .. Len(logs) : logs[i].what = what /\ logs[i].stage = s})

\* C15: whichever stages raise, run returns; a failing stage contributes
\* no cues and exactly one log entry, and the returned cues are those of
\* a run in which the failing stages returned empty lists.
C15_FailuresContained ==
    spc = "done" =>
        /\ \A s \in FailedStages :
              /\ stages[s].cues = <<>>
              /\ LogCount("failed", s) = 1
              /\ LogCount("add", s) = 0
        /\ \A s \in StageSet \ FailedStages : LogCount("failed", s) = 0
        /\ returned = CuesOf(AsIfEmpty)

\* The analyzer and aubio stages have raised, pyaudio has not, and its
\* drop is in the returned list.
C15_Witness ==
    /\ spc = "done"
    /\ {"analyzer", "aubio"} \subseteq FailedStages
    /\ "pyaudio" \notin FailedStages
    /\ \E i \in 1 .. Len(returned) : returned[i].type = "drop"

\* ======================================================================
\* AudioAnalyzer.detect_bpm_rekordbox_algorithm (analyzer.py): the four
\* estimators, the weighted vote and the correction.  An estimate is a
\* number of tenths of a BPM; computed tempi are exact fractions
\* <<n, d>> of a BPM with d > 0.
\* ======================================================================
RECURSIVE Gcd(_, _)
Gcd(a, b) == IF b = 0 THEN a ELSE Gcd(b, a % b)

\* a fraction in lowest terms
Frac(n, d) == <<n \div Gcd(Abs(n), d), d \div Gcd(Abs(n), d)>>

Less(a, b) == IF a[2] = b[2] THEN a[1] < b[1] ELSE a[1] * b[2] < b[1] * a[2]

Leq(a, b) == IF a[2] = b[2] THEN a[1] <= b[1] ELSE a[1] * b[2] <= b[1] * a[2]

Whole(k) == <<k, 1>>

Times(a, n, d) == Frac(a[1] * n, a[2] * d)

Plus(a, b) == Frac(a[1] * b[2] + b[1] * a[2], a[2] * b[2])

Minus(a, b) == Frac(a[1] * b[2] - b[1] * a[2], a[2] * b[2])

AbsFrac(a) == <<Abs(a[1]), a[2]>>

\* Python's round(): to the nearest integer, a tie to the even one.
Round(a) ==
    LET q == a[1] \div a[2]
        r == a[1] % a[2]
    IN  IF 2 * r < a[2] THEN q
        ELSE IF 2 * r > a[2] THEN q + 1
        ELSE IF q % 2 = 0 THEN q ELSE q + 1

InRange(a) == Leq(Whole(60), a) /\ Leq(a, Whole(200))

\* source_weights, in hundredths; an index past the end uses the last.
source_weights == <<25, 15, 45, 15>>

SourceWeight(idx) == source_weights[Min2(idx, Len(source_weights))]

\* (multiplier, boost in tenths) of the original, half and double votes
Multiples == << <<1, 1, 10>>, <<1, 2, 6>>, <<2, 1, 6>> >>

Candidate(b, m) == Times(b, Multiples[m][1], Multiples[m][2])

\* "Guard against NaNs/zeros": the estimates that stay, as fractions
Usable(ests) ==
    LET kept == SelectSeq(ests, LAMBDA b : b # 0 /\ b # NaN)
    IN  [i \in 1 .. Len(kept) |-> Frac(kept[i], 10)]

\* add_vote: the tally is a dict, kept here in insertion order
AddVote(tally, val, idx, boost) ==
    IF ~InRange(val) THEN tally
    ELSE LET key   == Round(val)
             score == SourceWeight(idx) * boost
         IN  IF \E j \in 1 .. Len(tally) : tally[j][1] = key
             THEN [j \in 1 .. Len(tally) |->
                      IF tally[j][1] = key THEN <<key, tally[j][2] + score>> ELSE tally[j]]
             ELSE Append(tally, <<key, score>>)

RECURSIVE Tally(_, _, _, _)
Tally(res, i, m, tally) ==
    IF i > Len(res) THEN tally
    ELSE IF m > Len(Multiples) THEN Tally(res, i + 1, 1, tally)
    ELSE Tally(res, i, m + 1, AddVote(tally, Candidate(res[i], m), i, Multiples[m][3]))

\* max(tally.items(), key=score).  The scores are sums of floats: two
\* sums that are equal here (0.15 + 0.15 + 0.15 and 0.45) may compare
\* either way in the code, so every entry with the highest exact score
\* is a possible winner.
Winners(tally) ==
    { tally[j][1] : j \in { i \in 1 .. Len(tally) :
                              \A k \in 1 .. Len(tally) : tally[k][2] <= tally[i][2] } }

IsClose(val, best) ==
    InRange(val) /\ Leq(AbsFrac(Minus(val, Whole(best))), Frac(3, 2))

\* close_vals and close_wts, summed: <<sum of weight * value, sum of weights>>
RECURSIVE CloseSums(_, _, _, _, _)
CloseSums(res, best, i, m, acc) ==
    IF i > Len(res) THEN acc
    ELSE IF m > Len(Multiples) THEN CloseSums(res, best, i + 1, 1, acc)
    ELSE LET val == Candidate(res[i], m)
             w   == SourceWeight(i) * Multiples[m][3]
         IN  CloseSums(res, best, i, m + 1,
                 IF IsClose(val, best)
                 THEN <<Plus(acc[1], Times(val, w, 1)), acc[2] + w>>
                 ELSE acc)

\* np.average(close_vals, weights=close_wts), or the winner itself when
\* nothing is close
Refined(res, best) ==
    LET sums == CloseSums(res, best, 1, 1, <<Whole(0), 0>>)
    IN  IF sums[2] = 0 THEN Whole(best)
        ELSE Times(sums[1], 1, sums[2])

common_bpms ==
    <<90, 95, 100, 110, 115, 118, 120, 122, 124, 125, 126, 127, 128, 129,
      130, 131, 132, 133, 135, 138, 140, 145, 150>>

\* min(common_bpms, key=distance): the first of the nearest values
Closest(b) ==
    LET Dist(k) == <<Abs(common_bpms[k] * b[2] - b[1]), b[2]>>
        best == CHOOSE j \in 1 .. Len(common_bpms) :
                    /\ \A k \in 1 .. Len(common_bpms) : Leq(Dist(j), Dist(k))
                    /\ \A k \in 1 .. j - 1 : Less(Dist(j), Dist(k))
    IN  common_bpms[best]

Snap(b) ==
    IF Leq(AbsFrac(Minus(b, Whole(Closest(b)))), Frac(3, 2)) THEN Whole(Closest(b)) ELSE b

_correct_bpm_industry_standard(b) ==
    IF Less(b, Whole(70))
    THEN LET corrected == Times(b, 2, 1)
         IN  IF Leq(Whole(120), corrected) /\ Leq(corrected, Whole(180))
             THEN corrected ELSE Snap(b)
    ELSE IF Less(Whole(180), b)
    THEN LET corrected == Times(b, 1, 2)
         IN  IF \/ Leq(Whole(80), corrected) /\ Leq(corrected, Whole(100))
                \/ Leq(Whole(120), corrected) /\ Leq(corrected, Whole(140))
             THEN corrected ELSE Snap(b)
    ELSE Snap(b)

\* np.median of a non-empty list
Median(res) ==
    LET n == Len(res)
        Rank(i) == Cardinality({j \in 1 .. n : Less(res[j], res[i]) \/ (res[j] = res[i] /\ j < i)}) + 1
        At(k) == res[CHOOSE i \in 1 .. n : Rank(i) = k]
    IN  IF n % 2 = 1 THEN At((n + 1) \div 2)
        ELSE LET lo == At(n \div 2)
                 hi == At(n \div 2 + 1)
             IN  Times(Plus(lo, hi), 1, 2)

\* the values _weighted_bpm_voting can return for a list of estimates
_weighted_bpm_voting(ests) ==
    LET res == Usable(ests)
    IN  IF ests = <<>> \/ res = <<>> THEN {Whole(120)}
        ELSE LET tally == Tally(res, 1, 1, <<>>)
             IN  IF tally = <<>> THEN {Whole(Round(Median(res)))}
                 ELSE { _correct_bpm_industry_standard(Refined(res, best)) :
                            best \in Winners(tally) }

\* What an estimator may return: NaN, 0, 20.0, 65.0, 72.0, 128.3, 144.0
\* and 450.0 BPM.
Estimates == {NaN, 0, 200, 650, 720, 1283, 1440, 4500}

\* features['tempo']: absent, or the precomputed tempo
Tempos == {None, 1440}

BpmInit ==
    /\ vpc = "estimating"
    /\ tempo \in Tempos
    /\ bpm_results = IF tempo # None THEN <<tempo>> ELSE <<>>
    /\ final_bpm = Whole(0)
    /\ bpmOut = 0

NotBpm == UNCHANGED <<pipeVars, hotVars, analyzeVars, batchVars, cacheVars, stageVars, keyVars, structVars, cliVars, runVars, scoreVars, guardVars, ladderVars, snapVars, traceVars, gridVars>>

Estimators == IF tempo # None THEN 5 ELSE 4

\* the next of the four algorithms appends its estimate
Estimate(b) ==
    /\ vpc = "estimating"
    /\ Len(bpm_results) < Estimators
    /\ bpm_results' = Append(bpm_results, b)
    /\ UNCHANGED <<vpc, tempo, final_bpm, bpmOut>>
    /\ NotBpm

\* an algorithm raises: the except branch returns 120
EstimatorRaises ==
    /\ vpc = "estimating"
    /\ Len(bpm_results) < Estimators
    /\ vpc' = "done"
    /\ bpmOut' = 120
    /\ UNCHANGED <<tempo, bpm_results, final_bpm>>
    /\ NotBpm

Vote ==
    /\ vpc = "estimating"
    /\ Len(bpm_results) = Estimators
    /\ final_bpm' \in _weighted_bpm_voting(bpm_results)
    /\ bpmOut' = Round(final_bpm')
    /\ vpc' = "done"
    /\ UNCHANGED <<tempo, bpm_results>>
    /\ NotBpm

InitBpm == PipeIdle /\ HotIdle /\ AnalyzeIdle /\ BatchIdle /\ CacheIdle /\ StagesIdle /\ BpmInit /\ KeyIdle /\ StructIdle /\ CliIdle /\ RunIdle /\ ScoreIdle /\ GuardIdle /\ LadderIdle /\ SnapIdle /\ TraceIdle /\ GridIdle

NextBpm ==
    \/ \E b \in Estimates : Estimate(b)
    \/ EstimatorRaises
    \/ Vote

SpecBpm == InitBpm /\ [][NextBpm]_vars

PercIndex == IF tempo # None THEN 4 ELSE 3

Perc == Frac(bpm_results[PercIndex], 10)

NearTo(e, target) == Leq(AbsFrac(Minus(e, target)), Frac(3, 2))

\* Every entry of the list is a number within 1.5 BPM of p, p/2 or 2p,
\* p being the percussive estimate, itself from 60 to 200.
OctaveAgreement ==
    /\ Len(bpm_results) = Estimators
    /\ \A i \in 1 .. Len(bpm_results) : bpm_results[i] # 0 /\ bpm_results[i] # NaN
    /\ InRange(Perc)
    /\ \A i \in 1 .. Len(bpm_results) :
          LET e == Frac(bpm_results[i], 10)
          IN  NearTo(e, Perc) \/ NearTo(e, Times(Perc, 1, 2)) \/ NearTo(e, Times(Perc, 2, 1))

\* C17 (as stated): when the estimates differ only by factors of two, the
\* BPM returned is the percussive estimate, rounded and snapped to the
\* common-BPM list, and the percussive estimate votes with weight 0.45,
\* with or without a precomputed tempo.
C17_PercussiveDecides ==
    (vpc = "done" /\ OctaveAgreement) =>
        /\ bpmOut \in {Round(Snap(Perc)), Round(Snap(Whole(Round(Perc))))}
        /\ SourceWeight(PercIndex) = 45

\* ======================================================================
\* AudioAnalyzer.detect_key_rekordbox_algorithm (analyzer.py): five key
\* methods, the weighted vote and the Camelot wheel.  A Camelot code such
\* as '8B' is the record [num |-> 8, letter |-> "B"]; confidences are in
\* hundredths and vote weights in thousandths.
\* ======================================================================
key_names == <<"C", "C#", "D", "D#", "E", "F", "F#", "G", "G#", "A", "A#", "B">>

lower_names == <<"c", "c#", "d", "d#", "e", "f", "f#", "g", "g#", "a", "a#", "b">>

\* a method that leaves the minor key names in upper case
SameName(i) == key_names[i]

\* key_names[i].lower()
LowerName(i) == lower_names[i]

Camelot(n, l) == [num |-> n, letter |-> l]

MajorCodes == <<8, 3, 10, 5, 12, 7, 2, 9, 4, 11, 6, 1>>

MinorCodes == <<5, 12, 7, 2, 9, 4, 11, 6, 1, 8, 3, 10>>

\* self.camelot_wheel.get(final_key, final_key)
camelot_wheel(k) ==
    IF \E i \in 1 .. 12 : key_names[i] = k
    THEN Camelot(MajorCodes[CHOOSE i \in 1 .. 12 : key_names[i] = k], "B")
    ELSE IF \E i \in 1 .. 12 : lower_names[i] = k
    THEN Camelot(MinorCodes[CHOOSE i \in 1 .. 12 : lower_names[i] = k], "A")
    ELSE Camelot(0, k)

KeyResult(k, m, c) == [key |-> k, mode |-> m, confidence |-> c]

\* what a method returns for the best-correlating rotation i
MajorResult(i, c) == KeyResult(key_names[i], "major", c)

MinorResult(i, c) == KeyResult(LowerName(i), "minor", c)

\* base_weights, extended by 0.7 times the last for the fifth method.
\* The division by their sum is the same for every vote and is left out.
base_weights == <<380, 320, 180, 120, 84>>

\* np.clip(confidence, 0.0, 1.0)
Clip01(c) == IF c = NaN THEN NaN ELSE Max2(0, Min2(100, c))

VoteKey(r) == <<r.key, r.mode>>

\* key_votes, in insertion order; a NaN confidence makes the sum NaN
RECURSIVE KeyVotes(_, _, _)
KeyVotes(res, i, votes) ==
    IF i > Len(res) THEN votes
    ELSE LET vk == VoteKey(res[i])
             c  == Clip01(res[i].confidence)
             Add(old) == IF old = NaN \/ c = NaN THEN NaN ELSE old + c * base_weights[i]
         IN  KeyVotes(res, i + 1,
                 IF \E j \in 1 .. Len(votes) : votes[j][1] = vk
                 THEN [j \in 1 .. Len(votes) |->
                          IF votes[j][1] = vk THEN <<vk, Add(votes[j][2])>> ELSE votes[j]]
                 ELSE Append(votes, <<vk, Add(0)>>))

\* max(key_votes.items(), key=score): an entry with the highest score;
\* equal float sums may compare either way, and comparisons with NaN
\* let any entry win.
BestVotes(votes) ==
    IF \E j \in 1 .. Len(votes) : votes[j][2] = NaN
    THEN {votes[j][1] : j \in 1 .. Len(votes)}
    ELSE {votes[j][1] : j \in {i \in 1 .. Len(votes) :
                                  \A k \in 1 .. Len(votes) : votes[k][2] <= votes[i][2]}}

\* the (final_key, final_mode) pairs _weighted_key_voting can return
_weighted_key_voting(res) ==
    IF KeyVotes(res, 1, <<>>) = <<>> THEN {<<"C", "major">>}
    ELSE BestVotes(KeyVotes(res, 1, <<>>))

KeyOutputs ==
    { MajorResult(1, 50), MinorResult(10, 50), MinorResult(9, 120),
      MajorResult(10, 0), MinorResult(1, NaN) }

KeyInit ==
    /\ kpc = "methods"
    /\ key_results = <<>>
    /\ camelot_key = Camelot(0, "")
    /\ final_mode = ""

NotKey == UNCHANGED <<pipeVars, hotVars, analyzeVars, batchVars, cacheVars, stageVars, bpmVars, structVars, cliVars, runVars, scoreVars, guardVars, ladderVars, snapVars, traceVars, gridVars>>

\* the next method appends its result
KeyMethod(r) ==
    /\ kpc = "methods"
    /\ Len(key_results) < Len(base_weights)
    /\ key_results' = Append(key_results, r)
    /\ UNCHANGED <<kpc, camelot_key, final_mode>>
    /\ NotKey

\* a method raises: the except branch returns '8A', 'minor'
KeyMethodRaises ==
    /\ kpc = "methods"
    /\ Len(key_results) < Len(base_weights)
    /\ camelot_key' = Camelot(8, "A")
    /\ final_mode' = "minor"
    /\ kpc' = "done"
    /\ UNCHANGED key_results
    /\ NotKey

KeyVote ==
    /\ kpc = "methods"
    /\ Len(key_results) = Len(base_weights)
    /\ \E best \in _weighted_key_voting(key_results) :
          /\ camelot_key' = camelot_wheel(best[1])
          /\ final_mode' = best[2]
    /\ kpc' = "done"
    /\ UNCHANGED key_results
    /\ NotKey

InitKey == PipeIdle /\ HotIdle /\ AnalyzeIdle /\ BatchIdle /\ CacheIdle /\ StagesIdle /\ BpmIdle /\ KeyInit /\ StructIdle /\ CliIdle /\ RunIdle /\ ScoreIdle /\ GuardIdle /\ LadderIdle /\ SnapIdle /\ TraceIdle /\ GridIdle

NextKey ==
    \/ \E r \in KeyOutputs : KeyMethod(r)
    \/ KeyMethodRaises
    \/ KeyVote

SpecKey == InitKey /\ [][NextKey]_vars

Segment(ty, s, e, d) == [type |-> ty, start |-> s, end |-> e, duration |-> d]

\* the members of a set of numbers, ascending: sorted(set(...))
RECURSIVE Ascending(_)
Ascending(S) ==
    IF S = {} THEN <<>>
    ELSE LET lo == CHOOSE x \in S : \A y \in S : x <= y
         IN  <<lo>> \o Ascending(S \ {lo})

\* _fallback_structure; 0.15 * dur and 0.85 * dur are exact for the
\* durations used (multiples of 2 s)
_fallback_structure(d) ==
    LET dur == Max2(d, 100)
        cut == Min2(300, (dur * 15) \div 100)
    IN  << Segment("intro", 0, cut, cut),
           Segment("verse", cut, (dur * 85) \div 100, (dur * 70) \div 100),
           Segment("outro", (dur * 85) \div 100, dur, (dur * 15) \div 100) >>

\* round(bi / 4) * 4, kept inside the beats
SnapToDownbeat(bi, n) == Max2(0, Min2(Round(<<bi, 4>>) * 4, n - 1))

\* boundary_times: the snapped boundary beats as times, ascending, with
\* 0.0 put in front and the duration appended when the ends are far
BoundaryTimes(beats, pk, d) ==
    LET n     == Len(beats)
        bb    == {0, n - 1} \cup {p \in pk : p < n}
        times == Ascending({beats[SnapToDownbeat(Min2(bi, n - 1), n) + 1] : bi \in bb})
        front == IF times[1] > 10 THEN <<0>> \o times ELSE times
    IN  IF front[Len(front)] < d - 20 THEN Append(front, d) ELSE front

\* the segments between consecutive boundaries, those under 1 s left out
RECURSIVE StageSegments(_, _)
StageSegments(bt, i) ==
    IF i >= Len(bt) THEN <<>>
    ELSE (IF bt[i + 1] - bt[i] < 10 THEN <<>>
          ELSE <<Segment("", bt[i], bt[i + 1], bt[i + 1] - bt[i])>>)
         \o StageSegments(bt, i + 1)

\* four times np.percentile(vals, 25 * q), by linear interpolation
Percentile4(vals, q) ==
    LET n      == Len(vals)
        sorted == SortSeq(vals, LAMBDA a, b : a < b)
        lo     == ((n - 1) * q) \div 4
        r      == ((n - 1) * q) % 4
        hi     == Min2(lo + 1, n - 1)
    IN  sorted[lo + 1] * (4 - r) + sorted[hi + 1] * r

\* the label of segment i from its energy, its position and whether its
\* chroma group occurs more than once
SegType(segs, rms, grp, i) ==
    LET n        == Len(segs)
        p25      == Percentile4(rms, 1)
        p50      == Percentile4(rms, 2)
        p75      == Percentile4(rms, 3)
        e        == 4 * rms[i]
        repeated == \E j \in 1 .. n : j # i /\ grp[j] = grp[i]
        base     == IF i = 1 /\ e < p50 THEN "intro"
                    ELSE IF i = n /\ e < p50 THEN "outro"
                    ELSE IF repeated /\ e >= p75 THEN "chorus"
                    ELSE IF repeated /\ e < p50 THEN "verse"
                    ELSE IF ~repeated /\ e < p25 THEN "breakdown"
                    ELSE IF ~repeated /\ e < p50 THEN "bridge"
                    ELSE IF e >= p75 THEN "chorus"
                    ELSE "verse"
    IN  IF /\ i < n /\ e < p50 /\ 4 * rms[i + 1] >= p75
           /\ segs[i].duration >= 40 /\ segs[i].duration <= 320
        THEN "build" ELSE base

Labelled(segs, rms, grp) ==
    [i \in 1 .. Len(segs) |-> [segs[i] EXCEPT !.type = SegType(segs, rms, grp, i)]]

\* np.unique(np.clip([0.0] + peak times + [duration], 0, duration))
Boundaries(pk, d) == Ascending({Max2(0, Min2(t, d)) : t \in pk \cup {0, d}})

\* the analyzer's segments: those of 1 s or less are left out, the first
\* pair of boundaries is the intro and the last pair the outro
RECURSIVE AnalyzerSegments(_, _, _)
AnalyzerSegments(b, loud, i) ==
    IF i >= Len(b) THEN <<>>
    ELSE LET dur == b[i + 1] - b[i]
             ty  == IF i = 1 THEN "intro"
                    ELSE IF i = Len(b) - 1 THEN "outro"
                    ELSE IF i \in loud THEN "chorus"
                    ELSE IF dur >= 250 THEN "verse"
                    ELSE "bridge"
         IN  (IF dur <= 10 THEN <<>> ELSE <<Segment(ty, b[i], b[i + 1], dur)>>)
             \o AnalyzerSegments(b, loud, i + 1)

\* the list returned when no segment is left
TwoSegments(d) ==
    << Segment("intro", 0, Min2(300, d), Min2(300, d)),
       Segment("outro", Max2(0, d - 300), d, Min2(300, d)) >>

\* the list returned from the except branch
ExceptSegments(d) ==
    << Segment("intro", 0, 300, 300),
       Segment("verse", 300, Max2(300, d - 300), Max2(0, d - 600)),
       Segment("outro", Max2(0, d - 300), d, Min2(300, d)) >>

\* The tracks: a duration with the beat times the stage works from.
Scenes ==
    { [track |-> 80,   beats |-> <<>>],
      [track |-> 2400, beats |-> <<>>],
      [track |-> 300,  beats |-> UniformGrid(5, 5, 300)],
      [track |-> 300,  beats |-> UniformGrid(20, 5, 280)],
      [track |-> 10,   beats |-> <<>>] }

\* novelty peaks: beat indices for the stage, times for the analyzer
StagePeaks == SUBSET {9, 10, 30}

AnalyzerPeaks == SUBSET {5, 100, 150}

StructInit ==
    /\ tpc = "start"
    /\ detector \in {"stage", "analyzer"}
    /\ scene \in Scenes
    /\ peaks \in (IF detector = "stage" THEN StagePeaks ELSE AnalyzerPeaks)
    /\ segments = <<>>
    /\ structure = <<>>

NotStruct ==
    UNCHANGED <<pipeVars, hotVars, analyzeVars, batchVars, cacheVars, stageVars, bpmVars, keyVars, cliVars, runVars, scoreVars, guardVars, ladderVars, snapVars, traceVars, gridVars>>

\* StructureStage.run up to the segment list: fewer than 8 beats, or no
\* segment, returns the fallback
StageSegment ==
    /\ tpc = "start" /\ detector = "stage"
    /\ IF Len(scene.beats) < 8
       THEN /\ structure' = _fallback_structure(scene.track)
            /\ segments' = <<>>
            /\ tpc' = "done"
       ELSE LET segs == StageSegments(BoundaryTimes(scene.beats, peaks, scene.track), 1)
            IN  /\ segments' = segs
                /\ structure' = IF segs = <<>> THEN _fallback_structure(scene.track) ELSE <<>>
                /\ tpc' = IF segs = <<>> THEN "done" ELSE "label"
    /\ UNCHANGED <<detector, scene, peaks>>
    /\ NotStruct

\* StructureStage.run, grouping and labelling: rms is the energy of each
\* segment and grp its chroma group
StageLabel(rms, grp) ==
    /\ tpc = "label"
    /\ structure' = Labelled(segments, rms, grp)
    /\ tpc' = "done"
    /\ UNCHANGED <<detector, scene, peaks, segments>>
    /\ NotStruct

\* anything in StructureStage.run raises: the fallback for the duration
StageRaises ==
    /\ tpc \in {"start", "label"} /\ detector = "stage"
    /\ structure' = _fallback_structure(scene.track)
    /\ tpc' = "done"
    /\ UNCHANGED <<detector, scene, peaks, segments>>
    /\ NotStruct

\* detect_song_structure_rekordbox_algorithm; loud are the boundary
\* pairs whose RMS is above the 75th percentile of the novelty
AnalyzerDetect(loud) ==
    /\ tpc = "start" /\ detector = "analyzer"
    /\ LET segs == AnalyzerSegments(Boundaries(peaks, scene.track), loud, 1)
       IN  /\ segments' = segs
           /\ structure' = IF segs = <<>> THEN TwoSegments(scene.track) ELSE segs
    /\ tpc' = "done"
    /\ UNCHANGED <<detector, scene, peaks>>
    /\ NotStruct

AnalyzerRaises ==
    /\ tpc = "start" /\ detector = "analyzer"
    /\ structure' = ExceptSegments(scene.track)
    /\ tpc' = "done"
    /\ UNCHANGED <<detector, scene, peaks, segments>>
    /\ NotStruct

InitStruct == PipeIdle /\ HotIdle /\ AnalyzeIdle /\ BatchIdle /\ CacheIdle /\ StagesIdle /\ BpmIdle /\ KeyIdle /\ StructInit /\ CliIdle /\ RunIdle /\ ScoreIdle /\ GuardIdle /\ LadderIdle /\ SnapIdle /\ TraceIdle /\ GridIdle

NextStruct ==
    \/ StageSegment
    \/ \E rms \in [1 .. Len(segments) -> {1, 2}], grp \in [1 .. Len(segments) -> {1, 2}] :
          StageLabel(rms, grp)
    \/ StageRaises
    \/ \E loud \in SUBSET {2, 3} : AnalyzerDetect(loud)
    \/ AnalyzerRaises

SpecStruct == InitStruct /\ [][NextStruct]_vars

\* C19 (as stated): the segment list is contiguous, starts at 0, ends at
\* the duration, and every duration field is end minus start.
C19_CoversTrack ==
    tpc = "done" =>
        /\ structure # <<>>
        /\ structure[1].start = 0
        /\ structure[Len(structure)].end = scene.track
        /\ \A i \in 1 .. Len(structure) - 1 : structure[i + 1].start = structure[i].end
        /\ \A i \in 1 .. Len(structure) :
              structure[i].duration = structure[i].end - structure[i].start

TypesOf(segs) == [i \in 1 .. Len(segs) |-> segs[i].type]

\* C20 (as stated): with no novelty peak the structure returned is the
\* three-segment fallback intro, verse, outro.
C20_NoPeaksGivesFallback ==
    (tpc = "done" /\ peaks = {}) => TypesOf(structure) = <<"intro", "verse", "outro">>

\* ======================================================================
\* The analyze command line: main() of analyzer.py with load_audio,
\* analyze_quick and analyze_audio as far as their result is concerned.
\* Durations are in tenths of a second.
\* ======================================================================
\* Python values: None and dicts; a dict is given by its keys and, for
\* an error record, its code
PyNone == [py |-> "None"]

PyDict(ks, code) == [py |-> "dict", keys |-> ks, error |-> code]

Unset == [py |-> "unset"]

\* `not analysis` is false for a dict with at least one key
Truthy(a) == a.py = "dict" /\ a.keys # {}

QuickKeys == {"file_path", "duration", "sample_rate", "waveform_data", "key", "key_mode",
              "key_confidence", "bpm", "quick_mode", "analysis_ms", "analysis_timestamp"}

FullKeys == {"file_path", "duration", "sample_rate", "waveform_data", "key", "key_mode",
             "key_confidence", "bpm", "cue_points", "song_structure", "energy_analysis"}

\* what analyze_quick returns from its except branch
QuickError == PyDict({"error", "file_path", "quick_mode"}, "str(e)")

\* the records main() prints itself
ErrorRecord(code) == PyDict({"error", "message"}, code)

\* load_audio: librosa, then pydub, then the ffmpeg CLI; it raises when
\* all three raise or when the duration is under 1 s
Decodes(a) == a.librosa \/ a.pydub \/ a.ffmpeg

LoadRaises(a) == ~Decodes(a) \/ a.dur < 10

\* analyze_quick: the error dict for any exception, else the result
analyze_quick(a, later) ==
    IF LoadRaises(a) \/ later THEN QuickError ELSE PyDict(QuickKeys, "")

\* analyze_audio: None for any exception, else the record
analyze_audio(a, later) ==
    IF LoadRaises(a) \/ later THEN PyNone ELSE PyDict(FullKeys, "")

ClipDurations == {5, 10, 300}

Argvs ==
    [quick : BOOLEAN, exists : BOOLEAN, librosa : BOOLEAN, pydub : BOOLEAN,
     ffmpeg : BOOLEAN, dur : ClipDurations]

CliInit ==
    /\ xpc = "start"
    /\ argv \in Argvs
    /\ analysis = Unset
    /\ stdout = <<>>
    /\ exitStatus = None

NotCli ==
    UNCHANGED <<pipeVars, hotVars, analyzeVars, batchVars, cacheVars, stageVars, bpmVars, keyVars, structVars, runVars, scoreVars, guardVars, ladderVars, snapVars, traceVars, gridVars>>

Exit(code, rec) ==
    /\ stdout' = Append(stdout, rec)
    /\ exitStatus' = code
    /\ xpc' = "exited"

\* os.path.exists(args.file_path)
CliCheckFile ==
    /\ xpc = "start"
    /\ IF argv.exists
       THEN xpc' = "construct" /\ UNCHANGED <<stdout, exitStatus>>
       ELSE Exit(1, ErrorRecord("FILE_NOT_FOUND"))
    /\ UNCHANGED <<argv, analysis>>
    /\ NotCli

\* AudioAnalyzer(): an exception goes to main's except branch
CliConstruct(raises) ==
    /\ xpc = "construct"
    /\ IF raises
       THEN Exit(1, ErrorRecord("ANALYSIS_EXCEPTION"))
       ELSE xpc' = "analyze" /\ UNCHANGED <<stdout, exitStatus>>
    /\ UNCHANGED <<argv, analysis>>
    /\ NotCli

\* analyzer.analyze_quick or analyzer.analyze_audio; later: a step after
\* load_audio raises
CliAnalyze(later) ==
    /\ xpc = "analyze"
    /\ analysis' = IF argv.quick THEN analyze_quick(argv, later)
                   ELSE analyze_audio(argv, later)
    /\ xpc' = "report"
    /\ UNCHANGED <<argv, stdout, exitStatus>>
    /\ NotCli

\* `if not analysis`: ANALYSIS_FAILED and status 2, else the analysis is
\* printed and main returns
CliReport ==
    /\ xpc = "report"
    /\ IF ~Truthy(analysis)
       THEN Exit(2, ErrorRecord("ANALYSIS_FAILED"))
       ELSE Exit(0, analysis)
    /\ UNCHANGED <<argv, analysis>>
    /\ NotCli

InitCli == PipeIdle /\ HotIdle /\ AnalyzeIdle /\ BatchIdle /\ CacheIdle /\ StagesIdle /\ BpmIdle /\ KeyIdle /\ StructIdle /\ CliInit /\ RunIdle /\ ScoreIdle /\ GuardIdle /\ LadderIdle /\ SnapIdle /\ TraceIdle /\ GridIdle

NextCli ==
    \/ CliCheckFile
    \/ \E raises \in BOOLEAN : CliConstruct(raises)
    \/ \E later \in BOOLEAN : CliAnalyze(later)
    \/ CliReport

SpecCli == InitCli /\ [][NextCli]_vars

IsComplete(rec) == rec.py = "dict" /\ rec.error = "" /\ rec.keys \in {QuickKeys, FullKeys}

\* C21 (as stated): when the analysis of an existing file fails in
\* load_audio, exactly one error record is printed and the status is 2,
\* with or without --quick; status 0 only after a complete result.
C21_FailureExitsTwo ==
    xpc = "exited" =>
        /\ (analysis # Unset /\ LoadRaises(argv)) =>
              /\ exitStatus = 2
              /\ Len(stdout) = 1
              /\ stdout[1].error # ""
        /\ exitStatus = 0 => (Len(stdout) = 1 /\ IsComplete(stdout[1]))

\* ======================================================================
\* The batch runner: main() and signal_handler of batch_analyzer.py, with
\* analyze_batch_parallel seen from the main thread.  The handler runs in
\* the main thread between two of its steps; sys.exit raises SystemExit
\* where the main thread stands.
\* ======================================================================
MaxSignals == 2     \* signals delivered to one run

\* signal.SIGINT and signal.SIGTERM
Signals == {2, 15}

\* sys.exit(128 + signum) of the handler
HandlerStatus130(signum) == 130

HandlerStatus(signum) == 128 + signum

\* sys.exit(130) of the _shutting_down tests in main
ShutdownStatus == 130

Terminated(signum) == [error |-> "PROCESS_TERMINATED", signal |-> signum]

Printed(code) == [error |-> code, signal |-> 0]

ResultsDocument == [error |-> "", signal |-> 0]

RunInit ==
    /\ rpc = "validate"
    /\ onDisk \in SUBSET Files
    /\ checked = 0
    /\ work = [f \in Files |-> "none"]
    /\ gathered = {}
    /\ _shutting_down = FALSE
    /\ sigs = <<>>
    /\ out = <<>>
    /\ status = None

NotRun ==
    UNCHANGED <<pipeVars, hotVars, analyzeVars, batchVars, cacheVars, stageVars, bpmVars, keyVars, structVars, cliVars, scoreVars, guardVars, ladderVars, snapVars, traceVars, gridVars>>

\* sys.exit(code) raised in main's try block: SystemExit is re-raised
SysExit(code) == rpc' = "exited" /\ status' = code

Busy == {f \in Files : work[f] \in {"queued", "running"}}

\* the validation loop, one file_path per step
RunValidate ==
    /\ rpc = "validate"
    /\ IF checked = NFiles
       THEN rpc' = "construct" /\ UNCHANGED <<checked, out, status>>
       ELSE IF _shutting_down
       THEN SysExit(ShutdownStatus) /\ UNCHANGED <<checked, out>>
       ELSE IF checked + 1 \in onDisk
       THEN checked' = checked + 1 /\ UNCHANGED <<rpc, out, status>>
       ELSE /\ out' = Append(out, Printed("FILE_NOT_FOUND"))
            /\ SysExit(1)
            /\ UNCHANGED checked
    /\ UNCHANGED <<onDisk, work, gathered, _shutting_down, sigs>>
    /\ NotRun

\* the import, AudioAnalyzer() and the test before the batch call; an
\* exception is printed by main's last except branch
RunConstruct(raises) ==
    /\ rpc = "construct"
    /\ IF raises
       THEN out' = Append(out, Printed("BATCH_ANALYSIS_FAILED")) /\ SysExit(1)
       ELSE IF _shutting_down
       THEN SysExit(ShutdownStatus) /\ UNCHANGED out
       ELSE rpc' = "cache" /\ UNCHANGED <<out, status>>
    /\ UNCHANGED <<onDisk, checked, work, gathered, _shutting_down, sigs>>
    /\ NotRun

\* analyze_batch_parallel up to the submissions: the cached files are
\* appended to results, the others are submitted
RunCache(cached) ==
    /\ rpc = "cache"
    /\ gathered' = cached
    /\ work' = [f \in Files |-> IF f \in cached THEN "none" ELSE "queued"]
    /\ rpc' = IF cached = Files THEN "summary" ELSE "pool"
    /\ UNCHANGED <<onDisk, checked, _shutting_down, sigs, out, status>>
    /\ NotRun

\* a worker thread takes a submitted call; it does so as long as the
\* process lives, also while the executor is being shut down
PoolStart(f) ==
    /\ rpc \in {"pool", "teardown"}
    /\ work[f] = "queued"
    /\ work' = [work EXCEPT ![f] = "running"]
    /\ UNCHANGED <<rpc, onDisk, checked, gathered, _shutting_down, sigs, out, status>>
    /\ NotRun

\* analyze_audio returns in its worker thread
PoolFinish(f) ==
    /\ rpc \in {"pool", "teardown"}
    /\ work[f] = "running"
    /\ work' = [work EXCEPT ![f] = "done"]
    /\ UNCHANGED <<rpc, onDisk, checked, gathered, _shutting_down, sigs, out, status>>
    /\ NotRun

\* the body of the as_completed loop for a future that is done
PoolCollect(f) ==
    /\ rpc = "pool"
    /\ work[f] = "done"
    /\ f \notin gathered
    /\ gathered' = gathered \cup {f}
    /\ UNCHANGED <<rpc, onDisk, checked, work, _shutting_down, sigs, out, status>>
    /\ NotRun

\* as_completed is exhausted, the with block is left and results returned
PoolLeave ==
    /\ rpc = "pool"
    /\ gathered = Files
    /\ rpc' = "summary"
    /\ UNCHANGED <<onDisk, checked, work, gathered, _shutting_down, sigs, out, status>>
    /\ NotRun

\* the test after the batch call, then the results document
RunSummary ==
    /\ rpc = "summary"
    /\ IF _shutting_down
       THEN SysExit(ShutdownStatus) /\ UNCHANGED out
       ELSE out' = Append(out, ResultsDocument) /\ SysExit(0)
    /\ UNCHANGED <<onDisk, checked, work, gathered, _shutting_down, sigs>>
    /\ NotRun

\* signal_handler(signum, frame): the flag, the error record, then
\* SystemExit.  Inside the executor's with block the exception first runs
\* shutdown(wait=True), which joins the worker threads.
signal_handler(signum) ==
    /\ rpc # "exited"
    /\ Len(sigs) < MaxSignals
    /\ sigs' = Append(sigs, signum)
    /\ _shutting_down' = TRUE
    /\ out' = Append(out, Terminated(signum))
    /\ status' = HandlerStatus(signum)
    /\ rpc' = IF rpc \in {"pool", "teardown"} /\ Busy # {} THEN "teardown" ELSE "exited"
    /\ UNCHANGED <<onDisk, checked, work, gathered>>
    /\ NotRun

\* the worker threads are joined and SystemExit leaves main
TeardownDone ==
    /\ rpc = "teardown"
    /\ Busy = {}
    /\ rpc' = "exited"
    /\ UNCHANGED <<onDisk, checked, work, gathered, _shutting_down, sigs, out, status>>
    /\ NotRun

InitRun == PipeIdle /\ HotIdle /\ AnalyzeIdle /\ BatchIdle /\ CacheIdle /\ StagesIdle /\ BpmIdle /\ KeyIdle /\ StructIdle /\ CliIdle /\ RunInit /\ ScoreIdle /\ GuardIdle /\ LadderIdle /\ SnapIdle /\ TraceIdle /\ GridIdle

MainStep ==
    \/ RunValidate
    \/ \E raises \in BOOLEAN : RunConstruct(raises)
    \/ \E cached \in SUBSET Files : RunCache(cached)
    \/ \E f \in Files : PoolCollect(f)
    \/ PoolLeave
    \/ RunSummary
    \/ TeardownDone

WorkerStep ==
    \/ \E f \in Files : PoolStart(f)
    \/ \E f \in Files : PoolFinish(f)

NextRun ==
    \/ MainStep
    \/ WorkerStep
    \/ \E signum \in Signals : signal_handler(signum)

\* the main thread and the worker threads keep running; a signal may or
\* may not arrive
SpecRun == InitRun /\ [][NextRun]_vars /\ WF_vars(MainStep) /\ WF_vars(WorkerStep)

TerminatedAt == {i \in 1 .. Len(out) : out[i].error = "PROCESS_TERMINATED"}

\* once a signal has arrived its error record is on stdout, no results
\* document follows an error record of the handler, and a run that one
\* signal ended has one such record and status 128 + signum
SignalSafety ==
    /\ Len(sigs) >= 1 => \E i \in TerminatedAt : out[i].signal = sigs[1]
    /\ \A i \in TerminatedAt : \A j \in i + 1 .. Len(out) : out[j] # ResultsDocument
    /\ (rpc = "exited" /\ Len(sigs) = 1) =>
          /\ Cardinality(TerminatedAt) = 1
          /\ status = 128 + sigs[1]

C30_NoStartAfterSignal ==
    [][Len(sigs) >= 1 => \A f \in Files : work[f] = "queued" => work'[f] = "queued"]_vars

\* ======================================================================
\* The mix scorecard: build_mix_scorecard (tools/mix_scorecard.py).
\* Scores are in tenths of a point (87.5 = 875), times in tenths of a
\* second, key confidences in hundredths, levels in tenths of a dB,
\* energies in tenths, weights in hundredths.  None is the null score.
\* ======================================================================
PHRASE_CUE_TYPES ==
    {"intro", "outro", "drop", "chorus", "hook", "breakdown", "bridge", "verse", "vocal",
     "build_up", "build_up_start", "breakdown_start", "chorus_start", "chorus_end",
     "outro_start"}

\* ^(?:[1-9]|1[0-2])[AB]$ on a key given as number and letter
CAMELot_RE(k) == k.num \in 1 .. 12 /\ k.letter \in {"A", "B"}

NoKey == Camelot(0, "")

_clamp(value, low, high) == Max2(low, Min2(high, value))

TypesIn(cues) == {cues[i].type : i \in 1 .. Len(cues)}

_score_cue_coverage(cues) ==
    IF cues = <<>> THEN None
    ELSE LET types     == TypesIn(cues)
             has_both  == "intro" \in types /\ "outro" \in types
             has_peak  == types \cap {"drop", "chorus", "hook"} # {}
             has_break == types \cap {"breakdown", "bridge", "breakdown_start"} # {}
             score     == (IF has_both THEN 80 ELSE 50) + (IF has_peak THEN 10 ELSE 0)
                          + (IF has_break THEN 10 ELSE 0)
         IN  10 * _clamp(score, 40, 100)

\* conf <= 1.0 is a fraction and is scaled by 100, a larger one is taken
\* as points; a key that is not a Camelot code costs 10 points
_score_key_confidence(key, conf) ==
    IF conf = None THEN None
    ELSE LET raw   == IF conf <= 100 THEN 10 * conf ELSE conf \div 10
             score == _clamp(raw, 0, 1000)
         IN  IF key # NoKey /\ ~CAMELot_RE(key) THEN Max2(0, score - 100) ELSE score

_score_headroom(peak) ==
    IF peak = None THEN None
    ELSE IF peak > -1 THEN 500
    ELSE IF peak > -10 THEN 600
    ELSE IF peak > -30 THEN 800
    ELSE IF peak > -60 THEN 950
    ELSE IF peak > -120 THEN 800
    ELSE 650

SeqMax(s) == CHOOSE x \in {s[i] : i \in 1 .. Len(s)} : \A j \in 1 .. Len(s) : s[j] <= x

SeqSum(s) == LET RECURSIVE Sum(_)
                 Sum(i) == IF i > Len(s) THEN 0 ELSE s[i] + Sum(i + 1)
             IN  Sum(1)

_score_energy_flow(profile) ==
    IF Len(profile) < 2 THEN None
    ELSE LET values == IF SeqMax(profile) <= 15 THEN [i \in 1 .. Len(profile) |-> 10 * profile[i]]
                       ELSE profile
             n      == Len(values) - 1
             deltas == [i \in 1 .. n |-> Abs(values[i + 1] - values[i])]
             jumps  == Cardinality({i \in 1 .. n : deltas[i] >= 30})
             score  == IF 5 * jumps <= n THEN 90
                       ELSE IF 5 * jumps <= 2 * n THEN 75
                       ELSE IF 5 * jumps <= 3 * n THEN 60
                       ELSE 45
         IN  10 * (IF SeqSum(deltas) <= 15 * n THEN _clamp(score + 5, 0, 100)
                   ELSE IF SeqSum(deltas) >= 40 * n THEN _clamp(score - 5, 0, 100)
                   ELSE score)

\* the positive differences of consecutive beats
Intervals(grid) ==
    SelectSeq([i \in 1 .. Len(grid) - 1 |-> grid[i + 1] - grid[i]], LAMBDA v : v > 0)

\* jitter_ratio <= per / 1000, with jitter_ratio = sqrt(variance) / median
\* compared in squares: n is the number of intervals, med2 twice their
\* median and dev the sum of (n * v - sum)^2
JitterWithin(n, med2, dev, per) == 4 * dev * 1000000 <= per * per * n * n * n * med2 * med2

_score_beatgrid_stability(grid) ==
    IF Len(grid) < 8 THEN None
    ELSE LET iv   == Intervals(grid)
             n    == Len(iv)
             med  == Median([i \in 1 .. n |-> Whole(iv[i])])
             med2 == (2 * med[1]) \div med[2]
             dev  == SeqSum([i \in 1 .. n |-> (n * iv[i] - SeqSum(iv)) * (n * iv[i] - SeqSum(iv))])
         IN  IF n < 4 THEN None
             ELSE IF JitterWithin(n, med2, dev, 15) THEN 950
             ELSE IF JitterWithin(n, med2, dev, 30) THEN 880
             ELSE IF JitterWithin(n, med2, dev, 50) THEN 780
             ELSE IF JitterWithin(n, med2, dev, 80) THEN 650
             ELSE 500

\* the beat length as a fraction of tenths of a second, <<0, 1>> for None
_get_beat_interval(bpmv, grid) ==
    IF bpmv # None /\ bpmv > 0 THEN Frac(600, bpmv)
    ELSE IF Len(grid) >= 2 /\ Intervals(grid) # <<>>
    THEN LET iv == Intervals(grid) IN Median([i \in 1 .. Len(iv) |-> Whole(iv[i])])
    ELSE Whole(0)

\* abs(bar_pos - round(bar_pos)) * 4.0 <= 0.25 for bar_pos = x / (4 * beat)
OnBar(x, beat) ==
    LET bar_pos == Frac(x * beat[2], 4 * beat[1])
        off     == AbsFrac(Minus(bar_pos, Whole(Round(bar_pos))))
    IN  Leq(Times(off, 4, 1), Frac(1, 4))

_score_phrase_alignment(cues, grid, bpmv) ==
    LET beat_sec  == _get_beat_interval(bpmv, grid)
        beat_zero == IF grid = <<>> THEN 0 ELSE grid[1]
        relevant  == SelectSeq(cues, LAMBDA c : c.type \in PHRASE_CUE_TYPES)
        total     == Len(relevant)
        aligned   == Cardinality({i \in 1 .. total :
                        /\ relevant[i].time - beat_zero >= 0
                        /\ OnBar(relevant[i].time - beat_zero, beat_sec)})
    IN  IF cues = <<>> \/ beat_sec[1] = 0 \/ total < 2 THEN None
        ELSE IF 100 * aligned >= 85 * total THEN 950
        ELSE IF 100 * aligned >= 70 * total THEN 850
        ELSE IF 100 * aligned >= 55 * total THEN 700
        ELSE IF 100 * aligned >= 40 * total THEN 550
        ELSE 400

\* the length of the first segment of the type that is over 0.1 s
_segment_duration(segs, ty) ==
    LET fit == {i \in 1 .. Len(segs) : segs[i].type = ty /\ segs[i].end - segs[i].start > 1}
    IN  IF fit = {} THEN None
        ELSE LET i == CHOOSE k \in fit : \A j \in fit : k <= j
             IN  segs[i].end - segs[i].start

\* from the first intro cue to the next cue of another type, or from the
\* last cue of another type to the last outro cue
_estimate_mix_window_from_cues(cues, ty) ==
    LET sorted == SortByTime(cues)
        mine   == {i \in 1 .. Len(sorted) : sorted[i].type = ty}
        first  == sorted[CHOOSE i \in mine : \A j \in mine : i <= j].time
        last   == sorted[CHOOSE i \in mine : \A j \in mine : i >= j].time
        after  == {sorted[i].time : i \in {k \in 1 .. Len(sorted) :
                       sorted[k].time > first /\ sorted[k].type # ty}}
        before == {sorted[i].time : i \in {k \in 1 .. Len(sorted) :
                       sorted[k].time < last /\ sorted[k].type # ty}}
    IN  IF cues = <<>> \/ mine = {} THEN None
        ELSE IF ty = "intro"
        THEN (IF after = {} THEN None
              ELSE (CHOOSE t \in after : \A u \in after : t <= u) - first)
        ELSE (IF before = {} THEN None
              ELSE last - (CHOOSE t \in before : \A u \in before : t >= u))

_score_mix_windows(cues, segs, bpmv, grid) ==
    LET WindowOf(ty) == IF _segment_duration(segs, ty) # None THEN _segment_duration(segs, ty)
                        ELSE _estimate_mix_window_from_cues(cues, ty)
        beat_sec     == _get_beat_interval(bpmv, grid)
        \* duration / bar_sec, or duration / 2.0 s without a beat length
        Bars(d)      == IF beat_sec[1] # 0 THEN Frac(d * beat_sec[2], 4 * beat_sec[1])
                        ELSE Frac(d, 20)
        windows      == {ty \in {"intro", "outro"} : WindowOf(ty) # None}
        AtLeast(k)   == \A ty \in windows : Leq(Whole(k), Bars(WindowOf(ty)))
    IN  IF windows = {} THEN None
        ELSE IF Cardinality(windows) = 2
        THEN (IF AtLeast(8) THEN 950 ELSE IF AtLeast(4) THEN 800
              ELSE IF AtLeast(2) THEN 600 ELSE 450)
        ELSE (IF AtLeast(8) THEN 750 ELSE IF AtLeast(4) THEN 600 ELSE 450)

ScoreSeg(ty, s, e) == [type |-> ty, start |-> s, end |-> e]

ScoreCue(ty, t) == [type |-> ty, time |-> t]

\* the seven checks, in the order of the list `checks`
CheckIds ==
    <<"cue_coverage", "mix_windows", "beatgrid_stability", "phrase_alignment",
      "key_confidence", "headroom", "energy_flow">>

Checks(a) ==
    << _score_cue_coverage(a.cues),
       _score_mix_windows(a.cues, a.segments, a.bpm, a.beatgrid),
       _score_beatgrid_stability(a.beatgrid),
       _score_phrase_alignment(a.cues, a.beatgrid, a.bpm),
       _score_key_confidence(a.key, a.key_confidence),
       _score_headroom(a.peak_dbfs),
       _score_energy_flow(a.energy_profile) >>

\* the categories: the indices of their checks and their weight
Categories ==
    << [id |-> "prep", checks |-> {1, 2}, weight |-> 20],
       [id |-> "timing", checks |-> {3, 4}, weight |-> 25],
       [id |-> "harmonic", checks |-> {5}, weight |-> 20],
       [id |-> "loudness", checks |-> {6}, weight |-> 15],
       [id |-> "energy", checks |-> {7}, weight |-> 20] >>

SetSum(S, F(_)) ==
    LET RECURSIVE Sum(_)
        Sum(T) == IF T = {} THEN 0 ELSE LET x == CHOOSE y \in T : TRUE IN F(x) + Sum(T \ {x})
    IN  Sum(S)

\* a slip: the decimals after the first are cut off
RoundTenthDown(a) == {a[1] \div a[2]}

\* round(x, 1) of a score given as a fraction of tenths; an exact tie is
\* a float that may lie on either side
RoundTenth(a) ==
    IF 2 * (a[1] % a[2]) = a[2] THEN {a[1] \div a[2], a[1] \div a[2] + 1} ELSE {Round(a)}

\* _average_scores of the checks of a category, rounded to one decimal
CategoryScore(checks, cat) ==
    LET nonnull == {i \in cat.checks : checks[i] # None}
    IN  IF nonnull = {} THEN None
        ELSE Round(Frac(SetSum(nonnull, LAMBDA i : checks[i]), Cardinality(nonnull)))

\* the weighted mean of the category scores that are not None
WeightedMean(cats) ==
    LET scored == {c \in 1 .. Len(cats) : cats[c] # None}
    IN  Frac(SetSum(scored, LAMBDA c : cats[c] * Categories[c].weight),
             SetSum(scored, LAMBDA c : Categories[c].weight))

\* build_mix_scorecard: the possible scorecards for an analysis record
build_mix_scorecard(a) ==
    LET checks == Checks(a)
        cats   == [c \in 1 .. Len(Categories) |-> CategoryScore(checks, Categories[c])]
        overs  == IF \A c \in 1 .. Len(cats) : cats[c] = None THEN {None}
                  ELSE RoundTenth(WeightedMean(cats))
    IN  {[overall_score |-> o, categories |-> cats, checks |-> checks] : o \in overs}

\* The analysis records: every field missing or empty, or with a value.
ScoreCues ==
    { <<>>,
      <<ScoreCue("intro", 0), ScoreCue("drop", 160), ScoreCue("outro", 960)>>,
      <<ScoreCue("intro", 0), ScoreCue("chorus", 163)>>,
      <<ScoreCue("drop", 50), ScoreCue("breakdown", 300), ScoreCue("cue", 20)>> }

ScoreSegments ==
    { <<>>,
      <<ScoreSeg("intro", 0, 160), ScoreSeg("outro", 960, 1120)>>,
      <<ScoreSeg("intro", 0, 1), ScoreSeg("intro", 0, 30)>> }

ScoreBpms == {None, 120, 128}

ScoreGrids ==
    { <<>>,
      <<0, 5, 10, 15, 20, 25, 30, 35, 40>>,
      <<3, 8, 13, 19, 24, 29, 33, 38, 43>> }

ScoreKeys == {NoKey, Camelot(8, "A"), Camelot(0, "Am")}

ScoreConfs == {None, 55, 90}

ScorePeaks == {None, 0, -35, -130}

ScoreProfiles == {<<>>, <<30, 50, 70, 60>>, <<2, 9, 3>>}

Analyses ==
    [cues : ScoreCues, segments : ScoreSegments, bpm : ScoreBpms, beatgrid : ScoreGrids,
     key : ScoreKeys, key_confidence : ScoreConfs, peak_dbfs : ScorePeaks,
     energy_profile : ScoreProfiles]

ScoreInit ==
    /\ mpc = "start"
    /\ record \in Analyses
    /\ scorecard = <<>>

NotScore ==
    UNCHANGED <<pipeVars, hotVars, analyzeVars, batchVars, cacheVars, stageVars, bpmVars, keyVars, structVars, cliVars, runVars, guardVars, ladderVars, snapVars, traceVars, gridVars>>

\* scorecard = build_mix_scorecard(analysis)
BuildScorecard ==
    /\ mpc = "start"
    /\ scorecard' \in build_mix_scorecard(record)
    /\ mpc' = "done"
    /\ UNCHANGED record
    /\ NotScore

InitScore == PipeIdle /\ HotIdle /\ AnalyzeIdle /\ BatchIdle /\ CacheIdle /\ StagesIdle /\ BpmIdle /\ KeyIdle /\ StructIdle /\ CliIdle /\ RunIdle /\ ScoreInit /\ GuardIdle /\ LadderIdle /\ SnapIdle /\ TraceIdle /\ GridIdle

NextScore == BuildScorecard

SpecScore == InitScore /\ [][NextScore]_vars

NoScore(s) == \A i \in 1 .. Len(s) : s[i] = None

\* the distance of a returned score from a fraction is at most half a tenth
WithinRounding(score, mean) == 2 * Abs(score * mean[2] - mean[1]) <= mean[2]

\* C23: the scorecard has its seven checks and five categories; overall_score
\* is null exactly when every check score is null, and is otherwise within
\* [0, 100] and the weight-normalised average of the non-null category
\* scores rounded to one decimal.
C23_OverallIsRoundedMean ==
    mpc = "done" =>
        /\ Len(scorecard.checks) = Len(CheckIds)
        /\ Len(scorecard.categories) = Len(Categories)
        /\ scorecard.overall_score = None <=> NoScore(scorecard.checks)
        /\ scorecard.overall_score # None =>
              /\ scorecard.overall_score >= 0 /\ scorecard.overall_score <= 1000
              /\ WithinRounding(scorecard.overall_score, WeightedMean(scorecard.categories))

\* a record with some fields missing whose mean has more than one decimal
C23_Witness ==
    /\ mpc = "done"
    /\ record.cues = <<>> /\ record.peak_dbfs = None
    /\ scorecard.overall_score # None
    /\ WeightedMean(scorecard.categories)[2] # 1

\* C23 (as stated): overall_score equals the weight-normalised average of
\* the non-null category scores.
C23_OverallIsExactMean ==
    (mpc = "done" /\ scorecard.overall_score # None) =>
        Whole(scorecard.overall_score) = WeightedMean(scorecard.categories)

\* ======================================================================
\* The chain analyze_audio -> CuePipeline.run -> AnalyzerStage.run ->
\* analyze_audio (analyzer.py, pipeline.py, analyzer_stage.py).
\* analyzer_stage.py defines class AnalyzerStage twice; the name is bound
\* to the second definition (line 120), the one pipeline.py imports.
\* ======================================================================
MaxDepth == 4       \* analyze_audio calls followed, one inside the other

\* a call of analyze_audio: where it stands, whether it ran the pipeline
\* and what the analyzer stage gave its pipeline ("failed": the failure
\* string of run_safely, "empty": no cues, "cues": the nested call's cues)
Frame(p) == [pos |-> p, ranPipeline |-> FALSE, s_analyzer |-> "none"]

\* os.environ.get("MIXEDIN_PIPELINE_ACTIVE") != "1" with _CuePipeline set
GuardOpen(available, env) == available /\ env # "1"

\* the value AnalyzerStage.run (the class in force, lines 120-159) leaves
\* in os.environ["MIXEDIN_PIPELINE_ACTIVE"] around its analyze_audio call:
\* it does not touch it
StageEnv(env) == env

GuardInit ==
    /\ gstack = <<Frame("load")>>
    /\ environ \in {"unset", "0", "1"}
    /\ cuePipeline \in BOOLEAN
    /\ importable \in BOOLEAN
    /\ pipelineRuns = 0
    /\ topResult = "pending"

NotGuard ==
    UNCHANGED <<pipeVars, hotVars, analyzeVars, batchVars, cacheVars, stageVars, bpmVars, keyVars, structVars, cliVars, runVars, scoreVars, ladderVars, snapVars, traceVars, gridVars>>

Top == gstack[Len(gstack)]

SetTop(f) == [gstack EXCEPT ![Len(gstack)] = f]

\* the innermost call returns res: the stage above it goes on, or the
\* top-level call has returned
Returned_(res) ==
    IF Len(gstack) = 1
    THEN gstack' = <<>> /\ topResult' = res
    ELSE /\ gstack' = [SubSeq(gstack, 1, Len(gstack) - 1) EXCEPT
                           ![Len(gstack) - 1].pos = "rest",
                           ![Len(gstack) - 1].s_analyzer = IF res = "record" THEN "cues" ELSE "empty"]
         /\ UNCHANGED topResult

\* load_audio and _precompute_features; an exception returns None
GuardLoad(ok) ==
    /\ gstack # <<>> /\ Top.pos = "load"
    /\ IF ok THEN gstack' = SetTop([Top EXCEPT !.pos = "guard"]) /\ UNCHANGED topResult
       ELSE Returned_("None")
    /\ UNCHANGED <<environ, cuePipeline, importable, pipelineRuns>>
    /\ NotGuard

\* the guard of analyze_audio: the pipeline is created and run, or skipped
GuardTest ==
    /\ gstack # <<>> /\ Top.pos = "guard"
    /\ IF GuardOpen(cuePipeline, environ)
       THEN /\ gstack' = SetTop([Top EXCEPT !.pos = "stage", !.ranPipeline = TRUE])
            /\ pipelineRuns' = pipelineRuns + 1
       ELSE /\ gstack' = SetTop([Top EXCEPT !.pos = "rest"])
            /\ UNCHANGED pipelineRuns
    /\ UNCHANGED <<environ, cuePipeline, importable, topResult>>
    /\ NotGuard

\* AnalyzerStage.run inside the pipeline: the import of AudioAnalyzer
\* raises (run_safely returns the failure string), or a new AudioAnalyzer
\* is created and its analyze_audio called on the same file
StageCall ==
    /\ gstack # <<>> /\ Top.pos = "stage"
    /\ IF importable
       THEN /\ Len(gstack) < MaxDepth
            /\ gstack' = Append(SetTop([Top EXCEPT !.pos = "wait"]), Frame("load"))
            /\ environ' = StageEnv(environ)
       ELSE /\ gstack' = SetTop([Top EXCEPT !.pos = "rest", !.s_analyzer = "failed"])
            /\ UNCHANGED environ
    /\ UNCHANGED <<cuePipeline, importable, pipelineRuns, topResult>>
    /\ NotGuard

\* the rest of analyze_audio: the record is returned, or an exception
\* returns None
GuardReturn(ok) ==
    /\ gstack # <<>> /\ Top.pos = "rest"
    /\ Returned_(IF ok THEN "record" ELSE "None")
    /\ UNCHANGED <<environ, cuePipeline, importable, pipelineRuns>>
    /\ NotGuard

InitGuard == PipeIdle /\ HotIdle /\ AnalyzeIdle /\ BatchIdle /\ CacheIdle /\ StagesIdle /\ BpmIdle /\ KeyIdle /\ StructIdle /\ CliIdle /\ RunIdle /\ ScoreIdle /\ GuardInit /\ LadderIdle /\ SnapIdle /\ TraceIdle /\ GridIdle

NextGuard ==
    \/ \E ok \in BOOLEAN : GuardLoad(ok)
    \/ GuardTest
    \/ StageCall
    \/ \E ok \in BOOLEAN : GuardReturn(ok)

SpecGuard == InitGuard /\ [][NextGuard]_vars

\* C24 (as stated): one top-level analyze_audio call runs the cue
\* pipeline at most once, the call made by the analyzer stage being
\* guarded against starting it again.
C24_PipelineRunsOnce ==
    /\ pipelineRuns <= 1
    /\ \A i \in 2 .. Len(gstack) : ~gstack[i].ranPipeline

\* a drop and an outro that conflict resolution left closer than the window
ClosePair(d, o) ==
    /\ IsIn(d, resolved) /\ IsIn(o, resolved)
    /\ d.type = "drop" /\ o.type = "outro"
    /\ Abs(d.time - o.time) < Window(bpm)

\* C26 (as stated): when a drop and an outro lie closer than the conflict
\* window, the returned cue list holds both, the drop at least 0.5 s before
\* the outro.
C26_DropOutroBothKept ==
    (pc = "done" /\ \E i \in 1..Len(resolved), j \in 1..Len(resolved) : ClosePair(resolved[i], resolved[j])) =>
        \E i \in 1..Len(final_cues), j \in 1..Len(final_cues) :
            /\ final_cues[i].type = "drop" /\ final_cues[j].type = "outro"
            /\ final_cues[i].time + 5 <= final_cues[j].time

\* ======================================================================
\* Step 6 of CuePipeline.run on two cues that are closer than the window
\* ======================================================================
LadderTypes ==
    {"drop", "outro", "chorus", "hook", "breakdown", "build", "bridge", "pre_chorus",
     "intro", "vocal", "section", "verse"}

\* the confidences: on both sides of 0.75 and on it
LadderConfs == {60, 70, 75, 80}

LadderInit ==
    /\ lpc = "start"
    /\ \E t1 \in LadderTypes, t2 \in LadderTypes, c1 \in LadderConfs, c2 \in LadderConfs,
          gap \in {0, 20} :
          pair = <<Cue(t1, 100, c1), Cue(t2, 100 + gap, c2)>>
    /\ survivors = <<>>

NotLadder ==
    UNCHANGED <<pipeVars, hotVars, analyzeVars, batchVars, cacheVars, stageVars, bpmVars, keyVars, structVars, cliVars, runVars, scoreVars, guardVars, snapVars, traceVars, gridVars>>

\* the resolution loop and the sort after it, at 120 BPM (window 4.0 s)
LadderResolve ==
    /\ lpc = "start"
    /\ survivors' = ResolveConflicts(pair, 120)
    /\ lpc' = "done"
    /\ UNCHANGED pair
    /\ NotLadder

InitLadder == PipeIdle /\ HotIdle /\ AnalyzeIdle /\ BatchIdle /\ CacheIdle /\ StagesIdle /\ BpmIdle /\ KeyIdle /\ StructIdle /\ CliIdle /\ RunIdle /\ ScoreIdle /\ GuardIdle /\ LadderInit /\ SnapIdle /\ TraceIdle /\ GridIdle

NextLadder == LadderResolve

SpecLadder == InitLadder /\ [][NextLadder]_vars

\* the ladder of the specification: chorus and hook share a rung
Rung(t) ==
    IF t = "drop" THEN 0
    ELSE IF t = "outro" THEN 1
    ELSE IF t \in {"chorus", "hook"} THEN 2
    ELSE IF t = "breakdown" THEN 3
    ELSE IF t = "build" THEN 4
    ELSE IF t = "bridge" THEN 5
    ELSE IF t = "pre_chorus" THEN 6
    ELSE IF t = "intro" THEN 7
    ELSE IF t = "vocal" THEN 8
    ELSE IF t = "section" THEN 9
    ELSE 10

\* neither a drop/outro pair nor decided by the 0.75 rule
LadderDecides(a, b) ==
    /\ {a.type, b.type} # {"drop", "outro"}
    /\ (a.conf > 75) = (b.conf > 75)

\* C25 (as stated): of two close cues the ladder decides, the one on the
\* higher rung survives; on the same rung (chorus and hook share one) the
\* one with the higher confidence, and at equal confidence the earlier.
C25_LadderWinner ==
    (lpc = "done" /\ LadderDecides(pair[1], pair[2])) =>
        LET a == pair[1]
            b == pair[2]
        IN  survivors = IF Rung(a.type) < Rung(b.type) THEN <<a>>
                        ELSE IF Rung(b.type) < Rung(a.type) THEN <<b>>
                        ELSE IF a.conf > b.conf THEN <<a>>
                        ELSE IF b.conf > a.conf THEN <<b>>
                        ELSE <<a>>

\* ======================================================================
\* Step 7 of CuePipeline.run on one cue
\* ======================================================================
\* the longest grid drawn, in beats
MaxBeats == 9

\* beat intervals of 0.5 s (120 BPM) and 1.2 s (50 BPM)
SnapSteps == {5, 12}

SnapGrids == {UniformGrid(0, st, st * n) : st \in SnapSteps, n \in 1..MaxBeats}

SnapTypes == {"intro", "outro", "drop", "breakdown", "chorus", "vocal"}

SnapInit ==
    /\ npc = "start"
    /\ ngrid \in SnapGrids
    /\ nbpm \in {0, 50, 120}
    /\ \E ty \in SnapTypes, t \in 0..(ngrid[Len(ngrid)] + 3) : ncue = Cue(ty, t, 60)
    /\ nout = <<>>

NotSnap ==
    UNCHANGED <<pipeVars, hotVars, analyzeVars, batchVars, cacheVars, stageVars, bpmVars, keyVars, structVars, cliVars, runVars, scoreVars, guardVars, ladderVars, traceVars, gridVars>>

\* the body of the snapping loop for the cue
SnapStep ==
    /\ npc = "start"
    /\ nout' = SnapCue(ncue, ngrid, nbpm)
    /\ npc' = "done"
    /\ UNCHANGED <<ncue, ngrid, nbpm>>
    /\ NotSnap

InitSnap == PipeIdle /\ HotIdle /\ AnalyzeIdle /\ BatchIdle /\ CacheIdle /\ StagesIdle /\ BpmIdle /\ KeyIdle /\ StructIdle /\ CliIdle /\ RunIdle /\ ScoreIdle /\ GuardIdle /\ LadderIdle /\ SnapInit /\ TraceIdle /\ GridIdle

NextSnap == SnapStep

SpecSnap == InitSnap /\ [][NextSnap]_vars

\* 0-based index of the grid beat at time t (the grids drawn are strictly ascending)
BeatIndex(t, grid) == (CHOOSE i \in 1..Len(grid) : grid[i] = t) - 1

OnGrid(t, grid) == \E i \in 1..Len(grid) : grid[i] = t

\* the multiples of 4 nearest to idx (two of them when idx is halfway)
NearestFours(idx) ==
    LET lo == 4 * (idx \div 4)
    IN  {k \in {lo, lo + 4} : \A m \in {lo, lo + 4} : Abs(k - idx) <= Abs(m - idx)}

\* C27 (as stated): with a non-empty grid, a bar-snap cue leaves step 7 on
\* the beat whose index is the multiple of 4 nearest to its nearest beat,
\* less than 2 s from where it was, or else, that boundary being 2 s or more
\* away, on its nearest beat.  Read in the claim's favour: halfway between
\* two boundaries either counts, and a boundary past the end of the grid
\* counts as too far.
C27_BarSnapOnFourth ==
    (npc = "done" /\ ncue.type \in BAR_SNAP_TYPES) =>
        LET t == ncue.time
            s == nout.time
            idx == NearestIdx(t, ngrid) - 1
        IN  \/ /\ OnGrid(s, ngrid)
               /\ BeatIndex(s, ngrid) \in NearestFours(idx)
               /\ Abs(t - s) < 20
            \/ /\ s = _nearest_beat(t, ngrid)
               /\ \E k \in NearestFours(idx) :
                      k + 1 > Len(ngrid) \/ Abs(ngrid[k + 1] - t) >= 20

\* ======================================================================
\* CuePipeline.run with its trace ("logs").  A log entry is modelled by
\* the fixed words it starts with; the cue it prints is left out.
\* ======================================================================
\* the longest list of stage cues drawn
MaxTraceCues == 2

\* close cues of one type and confidence, a drop and an outro near each
\* other, an invalid time and an early breakdown
TraceCues ==
    { Cue("intro", 0, 60), Cue("drop", 50, 60), Cue("outro", 53, 80),
      Cue("chorus", 52, 70), Cue("chorus", 53, 70), Cue("vocal", 53, 80),
      Cue("drop", NaN, 60), Cue("breakdown", 30, 60) }

NonEmpty(s) == SelectSeq(s, LAMBDA k : k # "")

\* step 3: one "stage=... add" entry per standardized cue
StageAddLogs(raw) == [i \in 1..Len(raw) |-> "add"]

\* step 4: the discards
FilterLogs(raw, dur) ==
    NonEmpty([i \in 1..Len(raw) |->
        IF ~_valid_time(raw[i].time, dur) THEN "discard invalid time"
        ELSE IF raw[i].type \in {"breakdown", "bridge"} /\ raw[i].time < 80
        THEN "discard early energy cue"
        ELSE ""])

\* step 5: the pushes
PushLogs(cues, b) ==
    LET intro_time == IF HasType(cues, "intro") THEN FirstOfType(cues, "intro").time ELSE 0
    IN  NonEmpty([i \in 1..Len(cues) |->
            IF cues[i].type = "drop" /\ cues[i].time <= intro_time + BarSec(b) THEN "adjust drop"
            ELSE IF cues[i].type = "outro" /\ cues[i].time <= intro_time + BarSec(b) THEN "adjust outro"
            ELSE ""])

\* step 6: what the winner branches append; the last branch appends nothing
\* when c is not earlier than last
ResolveLog(c, last) ==
    IF c.conf > 75 /\ last.conf <= 75 THEN <<"keep high-confidence">>
    ELSE IF last.conf > 75 /\ c.conf <= 75 THEN <<"keep high-confidence">>
    ELSE LET p_last == _priority_index(last.type)
             p_c == _priority_index(c.type)
         IN  IF p_c < p_last THEN <<"priority win">>
             ELSE IF p_c > p_last THEN <<"priority keep">>
             ELSE IF c.conf > last.conf THEN <<"confidence win">>
             ELSE IF c.conf < last.conf THEN <<"confidence keep">>
             ELSE IF c.time < last.time THEN <<"time tiebreaker">>
             ELSE <<>>

RECURSIVE ResolveLogs(_, _, _)
ResolveLogs(cues, res, window) ==
    IF cues = <<>> THEN <<>>
    ELSE LET c == Head(cues)
             n == Len(res)
         IN  IF n = 0 THEN ResolveLogs(Tail(cues), <<c>>, window)
             ELSE IF Abs(c.time - res[n].time) < window
             THEN IF {c.type, res[n].type} = {"drop", "outro"}
                  THEN <<"separate drop/outro">>
                       \o ResolveLogs(Tail(cues), Append(res, Separate(c, res[n])), window)
                  ELSE ResolveLog(c, res[n])
                       \o ResolveLogs(Tail(cues),
                                      IF Replaces(c, res[n]) THEN [res EXCEPT ![n] = c] ELSE res,
                                      window)
             ELSE ResolveLogs(Tail(cues), Append(res, c), window)

\* step 7: the snaps
SnapLogs(cues, grid, b) ==
    NonEmpty([i \in 1..Len(cues) |->
        IF grid = <<>> THEN ""
        ELSE IF cues[i].type \in BAR_SNAP_TYPES
        THEN IF Abs(cues[i].time - _nearest_bar(cues[i].time, grid, BpmVal(b))) < 20
             THEN "snap-bar" ELSE "snap-beat"
        ELSE IF cues[i].type \in SNAP_TYPES THEN "snap"
        ELSE ""])

\* run() on a file of TrackLen whose beat stage gave no grid and no onsets
\* and whose audio has no loud or quiet frame; step 8 appends nothing
TraceOf(raw, b) ==
    LET dur == TrackLen
        grid == BeatgridOf(<<>>, b, 0, Min2(dur, GridHorizon))
        v0 == FilterValid(raw, dur)
        v1 == IF HasType(v0, "intro") THEN v0
              ELSE Append(v0, Synth("intro", SmartIntroTime(None, grid, b)))
        v2 == IF HasType(v1, "outro") THEN v1
              ELSE Append(v1, Synth("outro", SmartOutroTime(None, dur, grid, b)))
        v == PushAll(v2, b)
        r == ResolveConflicts(v, b)
        sn == SnapAll(r, grid, b)
    IN  [cues |-> _dedup_and_space(FinalValid(sn, dur), AdaptiveSpacing(b)),
         logs |-> (IF b # 0 /\ b > 0 THEN <<"generated fallback beatgrid">> ELSE <<>>)
                  \o StageAddLogs(raw)
                  \o FilterLogs(raw, dur)
                  \o (IF HasType(v0, "intro") THEN <<>> ELSE <<"added smart intro">>)
                  \o (IF HasType(v1, "outro") THEN <<>> ELSE <<"added smart outro">>)
                  \o PushLogs(v2, b)
                  \o ResolveLogs(SortByTime(v), <<>>, Window(b))
                  \o SnapLogs(r, grid, b)]

TraceInit ==
    /\ qpc = "start"
    /\ \E n \in 0..MaxTraceCues : qraw \in [1..n -> TraceCues]
    /\ qbpm \in {0, 120}
    /\ qcues = <<>>
    /\ qlogs = <<>>

NotTrace ==
    UNCHANGED <<pipeVars, hotVars, analyzeVars, batchVars, cacheVars, stageVars, bpmVars, keyVars, structVars, cliVars, runVars, scoreVars, guardVars, ladderVars, snapVars, gridVars>>

TraceRun ==
    /\ qpc = "start"
    /\ qcues' = TraceOf(qraw, qbpm).cues
    /\ qlogs' = TraceOf(qraw, qbpm).logs
    /\ qpc' = "done"
    /\ UNCHANGED <<qraw, qbpm>>
    /\ NotTrace

InitTrace == PipeIdle /\ HotIdle /\ AnalyzeIdle /\ BatchIdle /\ CacheIdle /\ StagesIdle /\ BpmIdle /\ KeyIdle /\ StructIdle /\ CliIdle /\ RunIdle /\ ScoreIdle /\ GuardIdle /\ LadderIdle /\ SnapIdle /\ TraceInit /\ GridIdle

NextTrace == TraceRun

SpecTrace == InitTrace /\ [][NextTrace]_vars

CountOf(s, kinds) == Cardinality({i \in 1..Len(s) : s[i] \in kinds})

\* the entries that record a discard or a replacement
RemovalLogs ==
    {"discard invalid time", "discard early energy cue", "keep high-confidence",
     "priority win", "priority keep", "confidence win", "confidence keep",
     "time tiebreaker"}

\* C28 (as stated, its part on removals): the trace has a discard or
\* replacement entry for every cue that was added (by a stage or
\* synthesized) and is absent from the returned list, so it has at least as
\* many such entries as cues were removed.
C28_TraceAccountsForRemovals ==
    qpc = "done" =>
        Len(qraw) + CountOf(qlogs, {"added smart intro", "added smart outro"}) - Len(qcues)
            <= CountOf(qlogs, RemovalLogs)

\* ======================================================================
\* AubioStage.run and the beat grid CuePipeline.run takes from its result
\* ======================================================================
\* d.get(k, default) on a dict held as a function on its keys
DictGet(d, k, default) == IF k \in DOMAIN d THEN d[k] ELSE default

\* _first_strong_beat: the earliest onset or beat at or after 0.25 s
_first_strong_beat(beats, onsets) ==
    LET candidates == {onsets[i] : i \in {j \in 1..Len(onsets) : 2 * onsets[j] >= 5}}
                      \cup {beats[i] : i \in {j \in 1..Len(beats) : 2 * beats[j] >= 5}}
    IN  IF candidates = {} THEN None
        ELSE CHOOSE m \in candidates : \A x \in candidates : m <= x

\* an optional value: <<>> for None, <<x>> for the value x
Absent == <<>>
Given(x) == <<x>>

\* AubioStage.run when it returns: the cached beat_times come first, then
\* the tracker (_aubio_detect), then the librosa fallback
AubioStageRun(cached, detect, lib) ==
    LET beats == IF cached # Absent THEN cached[1]
                 ELSE IF detect # Absent THEN detect[1].beats
                 ELSE lib[1].beats
        onsets == IF cached # Absent THEN (IF detect # Absent THEN detect[1].onsets ELSE <<>>)
                  ELSE IF detect # Absent THEN detect[1].onsets
                  ELSE lib[1].onsets
        confidence == IF cached # Absent \/ detect # Absent THEN 85 ELSE 60
    IN  [first_strong_beat |-> _first_strong_beat(beats, onsets),
         beats |-> beats, onsets |-> onsets, confidence |-> confidence, cues |-> <<>>]

\* s_aubio = {"beatgrid": [], "cues": []}
AubioDefault == [beatgrid |-> <<>>, cues |-> <<>>]

Detected(bs, os) == [beats |-> bs, onsets |-> os]

\* features['beat_times']: None, empty or three beats
CachedBeats == {Absent, Given(<<>>), Given(<<3, 8, 13>>)}
\* _aubio_detect: None (aubio missing or failing), or its beats and onsets
Detects == {Absent, Given(Detected(<<>>, <<>>)), Given(Detected(<<4, 9, 14>>, <<2>>))}
\* _librosa_fallback: its beats and onsets, or none when it raises
Fallbacks == {Absent, Given(Detected(<<>>, <<>>)), Given(Detected(<<6, 11>>, <<6>>))}

GridInit ==
    /\ ypc = "stage"
    /\ beat_times \in CachedBeats
    /\ aub \in Detects
    /\ fallback \in Fallbacks
    /\ ybpm \in {0, 120}
    /\ s_aubio = AubioDefault
    /\ ygrid = <<>>

NotGrid ==
    UNCHANGED <<pipeVars, hotVars, analyzeVars, batchVars, cacheVars, stageVars, bpmVars, keyVars, structVars, cliVars, runVars, scoreVars, guardVars, ladderVars, snapVars, traceVars>>

UsesFallback == beat_times = Absent /\ aub = Absent

\* the stage returns and run() takes its result
AubioReturns ==
    /\ ypc = "stage"
    /\ UsesFallback => fallback # Absent
    /\ s_aubio' = AubioStageRun(beat_times, aub, fallback)
    /\ ypc' = "joined"
    /\ UNCHANGED <<beat_times, aub, fallback, ybpm, ygrid>>
    /\ NotGrid

\* the librosa fallback raises: run_safely returns a string, s_aubio stays
AubioRaises ==
    /\ ypc = "stage"
    /\ UsesFallback /\ fallback = Absent
    /\ ypc' = "joined"
    /\ UNCHANGED <<beat_times, aub, fallback, ybpm, s_aubio, ygrid>>
    /\ NotGrid

\* beatgrid = s_aubio.get("beatgrid", []) or [], and the fallback grid of a
\* file whose duration soundfile reads
GridSelect ==
    /\ ypc = "joined"
    /\ LET onsets == DictGet(s_aubio, "onsets", <<>>)
           start_t == IF onsets # <<>> THEN onsets[1] ELSE 0
       IN  ygrid' = BeatgridOf(DictGet(s_aubio, "beatgrid", <<>>), ybpm, start_t, Min2(TrackLen, GridHorizon))
    /\ ypc' = "done"
    /\ UNCHANGED <<beat_times, aub, fallback, ybpm, s_aubio>>
    /\ NotGrid

InitGrid == PipeIdle /\ HotIdle /\ AnalyzeIdle /\ BatchIdle /\ CacheIdle /\ StagesIdle /\ BpmIdle /\ KeyIdle /\ StructIdle /\ CliIdle /\ RunIdle /\ ScoreIdle /\ GuardIdle /\ LadderIdle /\ SnapIdle /\ TraceIdle /\ GridInit

NextGrid ==
    \/ AubioReturns
    \/ AubioRaises
    \/ GridSelect

SpecGrid == InitGrid /\ [][NextGrid]_vars

\* the beats the stage returned (none when it raised)
StageBeats == DictGet(s_aubio, "beats", <<>>)

\* C29 (as stated): when the beat stage returned a non-empty list of beats,
\* the grid run() snaps to and returns is that list; a grid is synthesized
\* only when the stage gave no beats and a BPM is known.
C29_GridIsStageBeats ==
    ypc = "done" =>
        /\ StageBeats # <<>> => ygrid = StageBeats
        /\ (StageBeats = <<>> /\ ygrid # <<>>) => ybpm > 0

====
